---- MODULE Spec2Model ----
(***************************************************************************)
(* A model of pin (muhammedikinci/pin): the pipeline runner of             *)
(* internal/runner (Runner.run, jobRunnerWithRetry, jobRunner and the      *)
(* script executor), the retry back-off computation, the SSE event         *)
(* broadcaster of internal/sse, the daemon with its /trigger endpoint and  *)
(* its shutdown, container naming, validation before execution, the apply  *)
(* command, the shell packager, the retry configuration and the condition  *)
(* evaluator.                                                              *)
(***************************************************************************)
EXTENDS Integers, Sequences, FiniteSets, TLC

\* ---------------------------------------------------------------- bounds
MaxJobs == 3
MaxAttempts == 3
PipelineAttempts == 2
MaxLines == 2
MaxDelay == 3
MaxClients == 2
MaxBroadcasters == 2
MaxEvents == 3
SinkCap == 2
MaxTriggers == 2
MaxClock == 11
MaxStarts == 3
MaxYamlJobs == 2
MaxScript == 3
MaxTokens == 5
MaxCondLen == 3

\* ------------------------------------------------------- program constants
ChanCap == 1
NoContainer == 0

\* ------------------------------------------------------------ error values
\* A Go error is modelled by its message and by the job and the attempt that
\* produced it (every failure allocates or receives its own error value). The
\* errors of the runtime adapter bubble up unchanged; their text is not modelled.
NoErr == [msg |-> "nil", job |-> 0, attempt |-> 0]
Err(m, j, a) == [msg |-> m, job |-> j, attempt |-> a]
IsErr(e) == e.msg # "nil"
AdapterError == "adapter error"

VARIABLES
  workflow,        \* pipeline.Workflow: the parsed jobs, in workflow order
  runPc,           \* position of Runner.run
  runResult,       \* value returned by Runner.run
  wpc,             \* per job: position of jobRunnerWithRetry
  attempt,         \* per job: loop variable of jobRunnerWithRetry
  lastError,       \* per job: lastError of jobRunnerWithRetry
  apc,             \* per job: position of the running jobRunner attempt
  cmdIdx,          \* per job: index of the wrapped script being executed
  prevErr,         \* per job: previousJobError read by the attempt
  ErrorChannel,    \* per job: Job.ErrorChannel made by generateJob
  attemptChannel,  \* per job: attemptJob.ErrorChannel of the current attempt
  attContainer,    \* per job: attemptJob.Container.ID
  jobContainer,    \* per job: Container.ID of the job in pipeline.Workflow
  containers,      \* containers created and not yet removed: <<job, attempt>>
  cancelled,       \* the signal context r.ctx is done
  handlerDone,     \* the goroutine of createGlobalContext has finished
  forceRemoved,    \* containers on which RemoveContainer(force=true) was called
  createCalls,     \* per job: StartContainer invocations
  provisionCalls,  \* per job: image build / check invocations
  scriptInspects,  \* per job: ContainerExecInspect calls of commandRunner
  scriptFails,     \* per job: attempts ended by a non-zero script exit
  sends,           \* per job: values sent on Job.ErrorChannel
  outcome,         \* per job: the value sent on Job.ErrorChannel
  RetryConfig,     \* retry policy of the job whose back-off is computed
  dAttempt,        \* loop variable `attempt` of that job's wrapper
  dpc,             \* position of that wrapper: "failed", "sleep" or "done"
  delay,           \* whole seconds n of the computed delay n * time.Second
  ebClients,       \* EventBroadcaster.clients: the registered client ids
  ebClosed,        \* EventBroadcaster.closed
  sink,            \* per connection: buffer of clientChan
  sinkClosed,      \* per connection: clientChan has been closed
  hpc,             \* per connection: position of handleSSE
  stream,          \* per connection: events written to the response
  bpc,             \* per broadcaster: position of Broadcast
  bEvent,          \* per broadcaster: the stamped event being sent
  bTodo,           \* per broadcaster: clients the range loop has yet to visit
  broadcasts,      \* number of Broadcast calls made so far
  removals,        \* per client: started `go eb.RemoveClient(id)` not yet run
  dropped,         \* per client: events a broadcast could not put in its sink
  ssePanic,        \* a send on, or a close of, a closed channel has happened
  dmPc,            \* position of ApplyDaemon
  req,             \* per /trigger request: method, body, handler position, status
  exec,            \* per pipeline execution: position of its goroutine
  dLog,            \* Broadcast calls and shutdown calls of the daemon, in order
  deadline,        \* shutdownCtx of ApplyDaemon is done
  pipelineExecutor, \* the package variable pipelineExecutor is set (not nil)
  now,             \* time.Now().UnixMilli()
  containerNames,  \* the names StartContainer has produced, per job, in order
  viperConfig,     \* the configuration held by the global viper store
  xpc,             \* per execution of the executor: its position
  xPipeline,       \* per execution: the pipeline parse returned
  xYaml,           \* per execution: the YAML document it was called with
  cmdPc,           \* position of the apply command
  cmdArgs,         \* the flags of the apply command: daemon, filepath
  applyErr,        \* the value Apply or ApplyDaemon returned to the command
  exitCode,        \* exit code of the process (-1 while it runs)
  fnIn,            \* input of the pure function under examination
  fnOut            \* its result (<<>> before the call, <<r>> after it)

runnerVars == <<workflow, runPc, runResult, wpc, attempt, lastError, apc, cmdIdx,
                prevErr, ErrorChannel, attemptChannel, attContainer, jobContainer,
                containers, cancelled, handlerDone, forceRemoved, createCalls,
                provisionCalls, scriptInspects, scriptFails, sends, outcome>>

delayVars == <<RetryConfig, dAttempt, dpc, delay>>

sseVars == <<ebClients, ebClosed, sink, sinkClosed, hpc, stream, bpc, bEvent,
             bTodo, broadcasts, removals, dropped, ssePanic>>

daemonVars == <<dmPc, req, exec, dLog, deadline, pipelineExecutor>>

nameVars == <<now, containerNames>>
execVars == <<viperConfig, xpc, xPipeline, xYaml>>

cmdVars == <<cmdPc, cmdArgs, applyErr, exitCode>>
fnVars == <<fnIn, fnOut>>

vars == <<runnerVars, delayVars, sseVars, daemonVars, nameVars, execVars,
          cmdVars, fnVars>>

\* ------------------------------------------------------- shell packager
ScriptPrefix == <<"#!/bin/sh", "exec > /shell_command_output.log 2>&1">>

wrapCommand(cmd) == ScriptPrefix \o cmd

\* Mutant of PrepareShellCommands: the lines of a combined script are not
\* terminated.
PrepareShellCommandsUnterminated(soloExecution, scripts) ==
  IF Len(scripts) = 0 THEN <<>>
  ELSE IF soloExecution
       THEN [i \in 1..Len(scripts) |-> wrapCommand(<<scripts[i]>>)]
       ELSE <<wrapCommand(scripts)>>

PrepareShellCommands(soloExecution, scripts) ==
  IF Len(scripts) = 0 THEN <<>>
  ELSE IF soloExecution
       THEN [i \in 1..Len(scripts) |-> wrapCommand(<<scripts[i]>>)]
       ELSE LET RECURSIVE join(_)
                join(k) == IF k = 0 THEN <<>>
                           ELSE join(k - 1) \o <<scripts[k], "\n">>
            IN <<wrapCommand(join(Len(scripts)))>>

\* ---------------------------------------------------- condition evaluator
\* A condition is held as the sequence of its tokens (operators and operands,
\* the spaces around them trimmed away as the code trims them); the
\* environment gives each variable its value, or "unset".
Operators == {"&&", "||", "==", "!="}
Variables == {"$A", "$B"}
Quoted == {"'x'"}
NoEnv == [v \in Variables |-> "unset"]

\* A condition without operators, as one operand.
Tokens(condition) == IF condition = "" THEN <<>> ELSE <<condition>>

\* strings.Contains(condition, op)
Contains(condition, op) == \E i \in DOMAIN condition : condition[i] = op

\* strings.Split(condition, op)
RECURSIVE Split(_, _)
Split(condition, op) ==
  IF ~Contains(condition, op) THEN <<condition>>
  ELSE LET i == CHOOSE k \in DOMAIN condition :
                  condition[k] = op /\ \A l \in 1..(k - 1) : condition[l] # op
       IN <<SubSeq(condition, 1, i - 1)>>
            \o Split(SubSeq(condition, i + 1, Len(condition)), op)

\* The text of a run of tokens.
RECURSIVE Text(_)
Text(value) == IF value = <<>> THEN "" ELSE Head(value) \o Text(Tail(value))

\* os.Getenv: the empty string for a variable that is not set, and for a
\* name that is no variable.
Getenv(name, env) ==
  IF name \in DOMAIN env /\ env[name] # "unset" THEN env[name] ELSE ""

\* resolveValue: a leading $ reads the environment, surrounding quotes are
\* taken off, anything else stands for itself.
resolveValue(value, env) ==
  IF value = <<>> THEN ""
  ELSE IF Head(value) \in Variables
    THEN Getenv(Text(value), env)
  ELSE IF Head(value) \in Quoted /\ value[Len(value)] \in Quoted
    THEN IF Len(value) = 1 THEN "x"
         ELSE "x'" \o Text(SubSeq(value, 2, Len(value) - 1)) \o "'x"
  ELSE Text(value)

evaluateVariable(condition, env) ==
  LET value == resolveValue(condition, env)
  IN value # "" /\ value # "false" /\ value # "0"

evaluateEquality(condition, env) ==
  LET parts == Split(condition, "==")
  IN IF Len(parts) # 2 THEN FALSE
     ELSE resolveValue(parts[1], env) = resolveValue(parts[2], env)

evaluateInequality(condition, env) ==
  LET parts == Split(condition, "!=")
  IN IF Len(parts) # 2 THEN FALSE
     ELSE resolveValue(parts[1], env) # resolveValue(parts[2], env)

\* The branch evaluateAnd and evaluateOr take for one part.
evaluatePart(part, env) ==
  IF Contains(part, "==") THEN evaluateEquality(part, env)
  ELSE IF Contains(part, "!=") THEN evaluateInequality(part, env)
  ELSE evaluateVariable(part, env)

evaluateAnd(condition, env) ==
  LET parts == Split(condition, "&&")
  IN \A i \in DOMAIN parts : evaluatePart(parts[i], env)

evaluateOr(condition, env) ==
  LET parts == Split(condition, "||")
  IN \E i \in DOMAIN parts : evaluatePart(parts[i], env)

\* Mutant of EvaluateCondition: || is looked for before &&.
EvaluateConditionOrFirst(condition, env) ==
  IF condition = <<>> THEN TRUE
  ELSE IF Contains(condition, "||") THEN evaluateOr(condition, env)
  ELSE IF Contains(condition, "&&") THEN evaluateAnd(condition, env)
  ELSE evaluatePart(condition, env)

EvaluateCondition(condition, env) ==
  IF condition = <<>> THEN TRUE
  ELSE IF Contains(condition, "&&") THEN evaluateAnd(condition, env)
  ELSE IF Contains(condition, "||") THEN evaluateOr(condition, env)
  ELSE IF Contains(condition, "==") THEN evaluateEquality(condition, env)
  ELSE IF Contains(condition, "!=") THEN evaluateInequality(condition, env)
  ELSE evaluateVariable(condition, env)

\* ------------------------------------------------------------- the parser
Lines(n) == [i \in 1..n |-> "line"]

\* generateJob with the defaults of the parser: a job that sets only an image
\* and a one-line script.
DefaultJob ==
  [IsParallel |-> FALSE, Condition |-> "", Image |-> "alpine", Dockerfile |-> "",
   CopyFiles |-> FALSE, ArtifactPath |-> "", SoloExecution |-> FALSE,
   Script |-> Lines(1), MaxAttempts |-> 1]

\* The jobs of the pipeline runs: the default job, changed in at most one of
\* parallel, condition and retry.attempts.
PipelineJobs ==
  {[DefaultJob EXCEPT !.IsParallel = TRUE],
   [DefaultJob EXCEPT !.Condition = "false"]}
  \cup {[DefaultJob EXCEPT !.MaxAttempts = n] : n \in 1..PipelineAttempts}

\* The jobs of the single-job runs: every combination of the fields the
\* executor reads.
SingleJobs ==
  [IsParallel : {FALSE},
   Condition : {"", "true", "false"},
   Image : {"alpine"},
   Dockerfile : {"", "Dockerfile"},
   CopyFiles : BOOLEAN,
   ArtifactPath : {"", "out.txt"},
   SoloExecution : BOOLEAN,
   Script : {Lines(n) : n \in 0..MaxLines},
   MaxAttempts : 1..MaxAttempts]

Jobs == 1..Len(workflow)
Last == Len(workflow)

\* Mutant of Previous: a job that follows a group of parallel jobs gets the
\* first member of the group as its predecessor.
PreviousGroupHead(j) ==
  IF j > 1 /\ (~workflow[j].IsParallel \/ ~workflow[j - 1].IsParallel)
  THEN IF ~workflow[j].IsParallel /\ workflow[j - 1].IsParallel
       THEN CHOOSE h \in 1..(j - 1) :
              /\ \A k \in h..(j - 1) : workflow[k].IsParallel
              /\ h = 1 \/ ~workflow[h - 1].IsParallel
       ELSE j - 1
  ELSE 0

\* parse(): Previous is set for position i > 1 unless both jobs are parallel.
Previous(j) ==
  IF j > 1 /\ (~workflow[j].IsParallel \/ ~workflow[j - 1].IsParallel)
  THEN j - 1 ELSE 0

Cmds(j) == PrepareShellCommands(workflow[j].SoloExecution, workflow[j].Script)

\* ------------------------------------------------------------ channels
\* Mutant of CanSend: the channel is made without a buffer.
CanSendNoBuffer(ch) == Len(ch) < ChanCap - 1

\* A send completes at once while the buffer has room.
CanSend(ch) == Len(ch) < ChanCap
CanRecv(ch) == Len(ch) > 0

\* ------------------------------------------------------- runtime adapter
\* A call made with r.ctx can fail at any time and fails once r.ctx is done.
CallResults == IF cancelled THEN {"error"} ELSE {"ok", "error"}

\* `currentJob.ErrorChannel <- err; return` of an attempt.
AttemptReturn(j, err) ==
  /\ CanSend(attemptChannel[j])
  /\ attemptChannel' = [attemptChannel EXCEPT ![j] = Append(@, err)]
  /\ apc' = [apc EXCEPT ![j] = "returned"]

\* The position after the script loop has handled k wrapped scripts.
AfterCmd(j, k) == IF k < Len(Cmds(j)) THEN "stage" ELSE "copyout"

\* ------------------------------------------------------------------ Init
InitState(w) ==
  /\ workflow = w
  /\ runPc = "start"
  /\ runResult = NoErr
  /\ wpc = [j \in Jobs |-> "idle"]
  /\ attempt = [j \in Jobs |-> 1]
  /\ lastError = [j \in Jobs |-> NoErr]
  /\ apc = [j \in Jobs |-> "none"]
  /\ cmdIdx = [j \in Jobs |-> 0]
  /\ prevErr = [j \in Jobs |-> NoErr]
  /\ ErrorChannel = [j \in Jobs |-> <<>>]
  /\ attemptChannel = [j \in Jobs |-> <<>>]
  /\ attContainer = [j \in Jobs |-> NoContainer]
  /\ jobContainer = [j \in Jobs |-> NoContainer]
  /\ containers = {}
  /\ cancelled = FALSE
  /\ handlerDone = FALSE
  /\ forceRemoved = {}
  /\ createCalls = [j \in Jobs |-> 0]
  /\ provisionCalls = [j \in Jobs |-> 0]
  /\ scriptInspects = [j \in Jobs |-> 0]
  /\ scriptFails = [j \in Jobs |-> 0]
  /\ sends = [j \in Jobs |-> 0]
  /\ outcome = [j \in Jobs |-> NoErr]

\* ------------------------------------------------------------ Runner.run
\* Variables no step of Runner.run touches.
RunFrame ==
  UNCHANGED <<workflow, attempt, lastError, apc, cmdIdx, prevErr, attemptChannel,
              attContainer, jobContainer, containers, cancelled, handlerDone,
              forceRemoved, createCalls, provisionCalls, scriptInspects,
              scriptFails, sends, outcome, delayVars, sseVars, daemonVars, nameVars,
                 execVars, cmdVars, fnVars>>

\* client.NewClientWithOpts fails: run returns its error, no job is started.
RunClientError ==
  /\ runPc = "start"
  /\ runPc' = "returned"
  /\ runResult' = Err(AdapterError, 0, 0)
  /\ UNCHANGED <<wpc, ErrorChannel>>
  /\ RunFrame

\* One goroutine per job, all started eagerly.
RunSpawn ==
  /\ runPc = "start"
  /\ runPc' = "wait"
  /\ wpc' = [j \in Jobs |-> "loop"]
  /\ UNCHANGED <<runResult, ErrorChannel>>
  /\ RunFrame

\* Mutant of RunWait: run waits for the first job of the workflow.
RunWaitFirst ==
  /\ runPc = "wait"
  /\ CanRecv(ErrorChannel[1])
  /\ runResult' = Head(ErrorChannel[1])
  /\ ErrorChannel' = [ErrorChannel EXCEPT ![1] = Tail(@)]
  /\ runPc' = "returned"
  /\ UNCHANGED wpc
  /\ RunFrame

\* err = <-pipeline.Workflow[len-1].ErrorChannel; return err
RunWait ==
  /\ runPc = "wait"
  /\ CanRecv(ErrorChannel[Last])
  /\ runResult' = Head(ErrorChannel[Last])
  /\ ErrorChannel' = [ErrorChannel EXCEPT ![Last] = Tail(@)]
  /\ runPc' = "returned"
  /\ UNCHANGED wpc
  /\ RunFrame

\* ---------------------------------------------------- jobRunnerWithRetry
WrapperFrame ==
  UNCHANGED <<workflow, runPc, runResult, jobContainer, containers, cancelled,
              handlerDone, forceRemoved, createCalls, provisionCalls,
              scriptInspects, scriptFails, delayVars, sseVars, daemonVars, nameVars,
                 execVars, cmdVars, fnVars>>

\* Loop head: copy the job, make the attempt's channel, start jobRunner.
RetryLoop(j) ==
  /\ wpc[j] = "loop"
  /\ attempt[j] <= workflow[j].MaxAttempts
  /\ attemptChannel' = [attemptChannel EXCEPT ![j] = <<>>]
  /\ attContainer' = [attContainer EXCEPT ![j] = jobContainer[j]]
  /\ apc' = [apc EXCEPT ![j] = "waitprev"]
  /\ cmdIdx' = [cmdIdx EXCEPT ![j] = 0]
  /\ prevErr' = [prevErr EXCEPT ![j] = NoErr]
  /\ wpc' = [wpc EXCEPT ![j] = "recv"]
  /\ UNCHANGED <<attempt, lastError, ErrorChannel, sends, outcome>>
  /\ WrapperFrame

\* Mutant of RetryRecv: only the last attempt ends the loop, a success does not.
RetryRecvNoSuccessCheck(j) ==
  /\ wpc[j] = "recv"
  /\ CanRecv(attemptChannel[j])
  /\ lastError' = [lastError EXCEPT ![j] = Head(attemptChannel[j])]
  /\ wpc' = [wpc EXCEPT ![j] =
               IF attempt[j] = workflow[j].MaxAttempts THEN "send" ELSE "sleep"]
  /\ attemptChannel' = [attemptChannel EXCEPT ![j] = Tail(@)]
  /\ UNCHANGED <<attempt, apc, cmdIdx, prevErr, ErrorChannel, attContainer,
                 sends, outcome>>
  /\ WrapperFrame

\* lastError = <-attemptJob.ErrorChannel, and the choice that follows it.
RetryRecv(j) ==
  /\ wpc[j] = "recv"
  /\ CanRecv(attemptChannel[j])
  /\ LET e == Head(attemptChannel[j])
     IN /\ lastError' = [lastError EXCEPT ![j] = e]
        /\ wpc' = [wpc EXCEPT ![j] =
                     IF ~IsErr(e) \/ attempt[j] = workflow[j].MaxAttempts
                     THEN "send" ELSE "sleep"]
  /\ attemptChannel' = [attemptChannel EXCEPT ![j] = Tail(@)]
  /\ UNCHANGED <<attempt, apc, cmdIdx, prevErr, ErrorChannel, attContainer,
                 sends, outcome>>
  /\ WrapperFrame

\* currentJob.ErrorChannel <- nil, or <- lastError after the last attempt.
RetrySend(j) ==
  /\ wpc[j] = "send"
  /\ CanSend(ErrorChannel[j])
  /\ ErrorChannel' = [ErrorChannel EXCEPT ![j] = Append(@, lastError[j])]
  /\ sends' = [sends EXCEPT ![j] = @ + 1]
  /\ outcome' = [outcome EXCEPT ![j] = lastError[j]]
  /\ wpc' = [wpc EXCEPT ![j] = "done"]
  /\ UNCHANGED <<attempt, lastError, apc, cmdIdx, prevErr, attemptChannel,
                 attContainer>>
  /\ WrapperFrame

\* time.Sleep(delay) ends; the loop goes on with the next attempt.
RetrySleep(j) ==
  /\ wpc[j] = "sleep"
  /\ attempt' = [attempt EXCEPT ![j] = @ + 1]
  /\ wpc' = [wpc EXCEPT ![j] = "loop"]
  /\ UNCHANGED <<lastError, apc, cmdIdx, prevErr, ErrorChannel, attemptChannel,
                 attContainer, sends, outcome>>
  /\ WrapperFrame

\* -------------------------------------------------------------- jobRunner
AttemptFrame ==
  UNCHANGED <<workflow, runPc, runResult, wpc, attempt, lastError, jobContainer,
              cancelled, handlerDone, forceRemoved, sends, outcome, delayVars,
              sseVars, daemonVars, nameVars,
                 execVars, cmdVars, fnVars>>

Goto(j, pc) ==
  /\ apc' = [apc EXCEPT ![j] = pc]
  /\ UNCHANGED attemptChannel

Fail(j, msg) == AttemptReturn(j, Err(msg, j, attempt[j]))

\* Mutant of Gated: every job that has a Previous waits for it.
GatedByPrevious(j) == Previous(j) # 0

\* The job waits for its predecessor iff Previous is set and it is not parallel.
Gated(j) == Previous(j) # 0 /\ ~workflow[j].IsParallel

\* Mutant of WaitPrev: a failed predecessor does not end the attempt.
WaitPrevNoSkip(j) ==
  /\ apc[j] = "waitprev"
  /\ IF Gated(j)
     THEN /\ CanRecv(ErrorChannel[Previous(j)])
          /\ prevErr' = [prevErr EXCEPT ![j] = Head(ErrorChannel[Previous(j)])]
          /\ ErrorChannel' = [ErrorChannel EXCEPT ![Previous(j)] = Tail(@)]
     ELSE UNCHANGED <<prevErr, ErrorChannel>>
  /\ Goto(j, "cond")
  /\ UNCHANGED <<cmdIdx, attContainer, containers, createCalls, provisionCalls,
                 scriptInspects, scriptFails>>
  /\ AttemptFrame

\* Mutant of WaitPrev: a skipped job passes the failure of its predecessor on.
WaitPrevPropagates(j) ==
  /\ apc[j] = "waitprev"
  /\ IF Gated(j)
     THEN /\ CanRecv(ErrorChannel[Previous(j)])
          /\ LET e == Head(ErrorChannel[Previous(j)])
             IN /\ prevErr' = [prevErr EXCEPT ![j] = e]
                /\ IF IsErr(e) THEN AttemptReturn(j, e) ELSE Goto(j, "cond")
          /\ ErrorChannel' = [ErrorChannel EXCEPT ![Previous(j)] = Tail(@)]
     ELSE /\ Goto(j, "cond")
          /\ UNCHANGED <<prevErr, ErrorChannel>>
  /\ UNCHANGED <<cmdIdx, attContainer, containers, createCalls, provisionCalls,
                 scriptInspects, scriptFails>>
  /\ AttemptFrame

\* previousJobError := <-currentJob.Previous.ErrorChannel
WaitPrev(j) ==
  /\ apc[j] = "waitprev"
  /\ IF Gated(j)
     THEN /\ CanRecv(ErrorChannel[Previous(j)])
          /\ LET e == Head(ErrorChannel[Previous(j)])
             IN /\ prevErr' = [prevErr EXCEPT ![j] = e]
                /\ IF IsErr(e) THEN AttemptReturn(j, NoErr) ELSE Goto(j, "cond")
          /\ ErrorChannel' = [ErrorChannel EXCEPT ![Previous(j)] = Tail(@)]
     ELSE /\ Goto(j, "cond")
          /\ UNCHANGED <<prevErr, ErrorChannel>>
  /\ UNCHANGED <<cmdIdx, attContainer, containers, createCalls, provisionCalls,
                 scriptInspects, scriptFails>>
  /\ AttemptFrame

\* Mutant of CheckCondition: the result of the evaluation is ignored.
CheckConditionNoSkip(j) ==
  /\ apc[j] = "cond"
  /\ Goto(j, "provision")
  /\ UNCHANGED <<cmdIdx, prevErr, ErrorChannel, attContainer, containers,
                 createCalls, provisionCalls, scriptInspects, scriptFails>>
  /\ AttemptFrame

\* The condition gate: a false condition ends the attempt with nil.
CheckCondition(j) ==
  /\ apc[j] = "cond"
  /\ IF workflow[j].Condition # "" /\
        ~EvaluateCondition(Tokens(workflow[j].Condition), NoEnv)
     THEN AttemptReturn(j, NoErr)
     ELSE Goto(j, "provision")
  /\ UNCHANGED <<cmdIdx, prevErr, ErrorChannel, attContainer, containers,
                 createCalls, provisionCalls, scriptInspects, scriptFails>>
  /\ AttemptFrame

\* BuildImageFromDockerfile, or CheckTheImageAvailable, or neither is set.
Provision(j) ==
  /\ apc[j] = "provision"
  /\ IF workflow[j].Dockerfile # ""
     THEN /\ provisionCalls' = [provisionCalls EXCEPT ![j] = @ + 1]
          /\ \E r \in CallResults :
               IF r = "ok" THEN Goto(j, "create") ELSE Fail(j, AdapterError)
     ELSE IF workflow[j].Image # ""
     THEN /\ provisionCalls' = [provisionCalls EXCEPT ![j] = @ + 1]
          /\ \E r \in CallResults, isImageAvailable \in BOOLEAN :
               IF r = "ok"
               THEN Goto(j, IF isImageAvailable THEN "create" ELSE "pull")
               ELSE Fail(j, AdapterError)
     ELSE /\ Fail(j, "either 'image' or 'dockerfile' must be specified")
          /\ UNCHANGED provisionCalls
  /\ UNCHANGED <<cmdIdx, prevErr, ErrorChannel, attContainer, containers,
                 createCalls, scriptInspects, scriptFails>>
  /\ AttemptFrame

\* ImageManager.PullImage when the image is not available.
PullImage(j) ==
  /\ apc[j] = "pull"
  /\ \E r \in CallResults :
       IF r = "ok" THEN Goto(j, "create") ELSE Fail(j, AdapterError)
  /\ UNCHANGED <<cmdIdx, prevErr, ErrorChannel, attContainer, containers,
                 createCalls, provisionCalls, scriptInspects, scriptFails>>
  /\ AttemptFrame

\* Mutant of StartContainer: a retry does not create a container of its own.
StartContainerOnce(j) ==
  /\ apc[j] = "create"
  /\ IF attempt[j] > 1
     THEN /\ Goto(j, "copyin")
          /\ UNCHANGED <<createCalls, attContainer, containers>>
     ELSE /\ createCalls' = [createCalls EXCEPT ![j] = @ + 1]
          /\ \E r \in CallResults :
               IF r = "ok"
               THEN /\ attContainer' = [attContainer EXCEPT ![j] = attempt[j]]
                    /\ containers' = containers \cup {<<j, attempt[j]>>}
                    /\ Goto(j, "copyin")
               ELSE /\ Fail(j, AdapterError)
                    /\ UNCHANGED <<attContainer, containers>>
  /\ UNCHANGED <<cmdIdx, prevErr, ErrorChannel, provisionCalls, scriptInspects,
                 scriptFails>>
  /\ AttemptFrame

\* ContainerManager.StartContainer creates the container; on success the
\* attempt's copy of the job holds the response (currentJob.Container = resp).
StartContainer(j) ==
  /\ apc[j] = "create"
  /\ createCalls' = [createCalls EXCEPT ![j] = @ + 1]
  /\ \E r \in CallResults :
       IF r = "ok"
       THEN /\ attContainer' = [attContainer EXCEPT ![j] = attempt[j]]
            /\ containers' = containers \cup {<<j, attempt[j]>>}
            /\ Goto(j, "copyin")
       ELSE /\ Fail(j, AdapterError)
            /\ UNCHANGED <<attContainer, containers>>
  /\ UNCHANGED <<cmdIdx, prevErr, ErrorChannel, provisionCalls, scriptInspects,
                 scriptFails>>
  /\ AttemptFrame

\* ContainerManager.CopyToContainer, only when copyFiles is set.
CopyToContainer(j) ==
  /\ apc[j] = "copyin"
  /\ IF workflow[j].CopyFiles
     THEN \E r \in CallResults :
            IF r = "ok" THEN Goto(j, "start") ELSE Fail(j, AdapterError)
     ELSE Goto(j, "start")
  /\ UNCHANGED <<cmdIdx, prevErr, ErrorChannel, attContainer, containers,
                 createCalls, provisionCalls, scriptInspects, scriptFails>>
  /\ AttemptFrame

\* r.cli.ContainerStart, then commandScriptExecutor prepares the scripts.
ContainerStart(j) ==
  /\ apc[j] = "start"
  /\ \E r \in CallResults :
       IF r = "ok" THEN Goto(j, AfterCmd(j, 0)) ELSE Fail(j, AdapterError)
  /\ UNCHANGED <<cmdIdx, prevErr, ErrorChannel, attContainer, containers,
                 createCalls, provisionCalls, scriptInspects, scriptFails>>
  /\ AttemptFrame

\* ShellToTar and CopyToContainer of one wrapped script to /home/.
StageScript(j) ==
  /\ apc[j] = "stage"
  /\ \E r \in CallResults :
       IF r = "ok" THEN Goto(j, "chmod") ELSE Fail(j, AdapterError)
  /\ UNCHANGED <<cmdIdx, prevErr, ErrorChannel, attContainer, containers,
                 createCalls, provisionCalls, scriptInspects, scriptFails>>
  /\ AttemptFrame

\* internalExec("chmod +x /home/shell_command.sh")
ChmodScript(j) ==
  /\ apc[j] = "chmod"
  /\ \E r \in CallResults :
       IF r = "ok" THEN Goto(j, "run") ELSE Fail(j, AdapterError)
  /\ UNCHANGED <<cmdIdx, prevErr, ErrorChannel, attContainer, containers,
                 createCalls, provisionCalls, scriptInspects, scriptFails>>
  /\ AttemptFrame

\* commandRunner: exec create, attach, inspect. A non-zero exit code kills the
\* container and goes on to stop and remove it.
ExecResults ==
  IF cancelled THEN {"exec error"}
  ELSE {"exec error", "inspect error", "exit zero", "exit nonzero"}

\* Mutant of commandRunner: a non-zero exit code is treated like zero.
commandRunnerIgnoresExit(j) ==
  /\ apc[j] = "run"
  /\ \E r \in ExecResults :
       /\ scriptInspects' = [scriptInspects EXCEPT ![j] =
                               IF r = "exec error" THEN @ ELSE @ + 1]
       /\ scriptFails' = [scriptFails EXCEPT ![j] =
                            IF r = "exit nonzero" THEN @ + 1 ELSE @]
       /\ CASE r \in {"exit zero", "exit nonzero"} -> Goto(j, "rmscript")
            [] OTHER -> Fail(j, AdapterError)
  /\ UNCHANGED <<cmdIdx, prevErr, ErrorChannel, attContainer, containers,
                 createCalls, provisionCalls>>
  /\ AttemptFrame

commandRunner(j) ==
  /\ apc[j] = "run"
  /\ \E r \in ExecResults :
       /\ scriptInspects' = [scriptInspects EXCEPT ![j] =
                               IF r = "exec error" THEN @ ELSE @ + 1]
       /\ scriptFails' = [scriptFails EXCEPT ![j] =
                            IF r = "exit nonzero" THEN @ + 1 ELSE @]
       /\ CASE r = "exit zero" -> Goto(j, "rmscript")
            [] r = "exit nonzero" -> Goto(j, "failstop")
            [] OTHER -> Fail(j, AdapterError)
  /\ UNCHANGED <<cmdIdx, prevErr, ErrorChannel, attContainer, containers,
                 createCalls, provisionCalls>>
  /\ AttemptFrame

\* commandRunner after a non-zero exit: StopContainer.
FailStop(j) ==
  /\ apc[j] = "failstop"
  /\ \E r \in CallResults :
       IF r = "ok" THEN Goto(j, "failremove") ELSE Fail(j, AdapterError)
  /\ UNCHANGED <<cmdIdx, prevErr, ErrorChannel, attContainer, containers,
                 createCalls, provisionCalls, scriptInspects, scriptFails>>
  /\ AttemptFrame

\* commandRunner after a non-zero exit: RemoveContainer, then the error.
FailRemove(j) ==
  /\ apc[j] = "failremove"
  /\ \E r \in CallResults :
       IF r = "ok"
       THEN /\ containers' = containers \ {<<j, attContainer[j]>>}
            /\ Fail(j, "command execution failed")
       ELSE /\ Fail(j, AdapterError)
            /\ UNCHANGED containers
  /\ UNCHANGED <<cmdIdx, prevErr, ErrorChannel, attContainer, createCalls,
                 provisionCalls, scriptInspects, scriptFails>>
  /\ AttemptFrame

\* internalExec("rm /home/shell_command.sh"), then the next wrapped script.
RemoveScript(j) ==
  /\ apc[j] = "rmscript"
  /\ \E r \in CallResults :
       IF r = "ok"
       THEN /\ cmdIdx' = [cmdIdx EXCEPT ![j] = @ + 1]
            /\ Goto(j, AfterCmd(j, cmdIdx[j] + 1))
       ELSE /\ Fail(j, AdapterError)
            /\ UNCHANGED cmdIdx
  /\ UNCHANGED <<prevErr, ErrorChannel, attContainer, containers, createCalls,
                 provisionCalls, scriptInspects, scriptFails>>
  /\ AttemptFrame

\* ContainerManager.CopyFromContainer, only when artifactPath is set.
CopyFromContainer(j) ==
  /\ apc[j] = "copyout"
  /\ IF workflow[j].ArtifactPath # ""
     THEN \E r \in CallResults :
            IF r = "ok" THEN Goto(j, "stop") ELSE Fail(j, AdapterError)
     ELSE Goto(j, "stop")
  /\ UNCHANGED <<cmdIdx, prevErr, ErrorChannel, attContainer, containers,
                 createCalls, provisionCalls, scriptInspects, scriptFails>>
  /\ AttemptFrame

\* ContainerManager.StopContainer on the success path.
StopContainer(j) ==
  /\ apc[j] = "stop"
  /\ \E r \in CallResults :
       IF r = "ok" THEN Goto(j, "remove") ELSE Fail(j, AdapterError)
  /\ UNCHANGED <<cmdIdx, prevErr, ErrorChannel, attContainer, containers,
                 createCalls, provisionCalls, scriptInspects, scriptFails>>
  /\ AttemptFrame

\* Mutant of RemoveContainer: success is signalled whatever remove returned.
RemoveContainerSignalsAnyway(j) ==
  /\ apc[j] = "remove"
  /\ \E r \in CallResults :
       /\ containers' = IF r = "ok" THEN containers \ {<<j, attContainer[j]>>}
                        ELSE containers
       /\ AttemptReturn(j, NoErr)
  /\ UNCHANGED <<cmdIdx, prevErr, ErrorChannel, attContainer, createCalls,
                 provisionCalls, scriptInspects, scriptFails>>
  /\ AttemptFrame

\* ContainerManager.RemoveContainer(force=false), then ErrorChannel <- nil.
RemoveContainer(j) ==
  /\ apc[j] = "remove"
  /\ \E r \in CallResults :
       IF r = "ok"
       THEN /\ containers' = containers \ {<<j, attContainer[j]>>}
            /\ AttemptReturn(j, NoErr)
       ELSE /\ Fail(j, AdapterError)
            /\ UNCHANGED containers
  /\ UNCHANGED <<cmdIdx, prevErr, ErrorChannel, attContainer, createCalls,
                 provisionCalls, scriptInspects, scriptFails>>
  /\ AttemptFrame

\* ---------------------------------------------------- createGlobalContext
\* An interrupt or SIGTERM arrives while the pipeline runs: r.ctx is done.
Cancel ==
  /\ runPc = "wait"
  /\ ~cancelled
  /\ cancelled' = TRUE
  /\ UNCHANGED <<workflow, runPc, runResult, wpc, attempt, lastError, apc, cmdIdx,
                 prevErr, ErrorChannel, attemptChannel, attContainer, jobContainer,
                 containers, handlerDone, forceRemoved, createCalls,
                 provisionCalls, scriptInspects, scriptFails, sends, outcome,
                 delayVars, sseVars, daemonVars, nameVars,
                 execVars, cmdVars, fnVars>>

\* The goroutine of createGlobalContext: for every job of pipeline.Workflow
\* whose Container.ID is not empty, RemoveContainer(timedContext, ID, true).
SignalHandler ==
  /\ cancelled
  /\ ~handlerDone
  /\ LET held == {<<j, jobContainer[j]>> : j \in {i \in Jobs : jobContainer[i] # NoContainer}}
     IN /\ forceRemoved' = forceRemoved \cup held
        /\ containers' = containers \ held
  /\ handlerDone' = TRUE
  /\ UNCHANGED <<workflow, runPc, runResult, wpc, attempt, lastError, apc, cmdIdx,
                 prevErr, ErrorChannel, attemptChannel, attContainer, jobContainer,
                 cancelled, createCalls, provisionCalls, scriptInspects,
                 scriptFails, sends, outcome, delayVars, sseVars, daemonVars, nameVars,
                 execVars, cmdVars, fnVars>>

\* ------------------------------------------------------ retry back-off
\* retry.backoff is a float64; the model holds it in tenths and takes the
\* values whose powers float64 represents exactly.
BackoffTenths == {5, 10, 15, 20, 25}

RetryPolicies ==
  [MaxAttempts : 1..MaxAttempts, DelaySeconds : 0..MaxDelay,
   BackoffTenths : BackoffTenths]

RECURSIVE Pow(_, _)
Pow(x, n) == IF n = 0 THEN 1 ELSE x * Pow(x, n - 1)

\* time.Duration(float64(DelaySeconds) * math.Pow(BackoffMultiplier, attempt-1)):
\* the conversion of the float64 product to the integer type drops its fraction.
\* The result is the factor of time.Second.
RetryDelay(cfg, k) ==
  (cfg.DelaySeconds * Pow(cfg.BackoffTenths, k - 1)) \div Pow(10, k - 1)

DelayInit ==
  /\ RetryConfig \in RetryPolicies
  /\ dAttempt = 1
  /\ dpc = "failed"
  /\ delay = 0

DelayIdle ==
  /\ RetryConfig = [MaxAttempts |-> 1, DelaySeconds |-> 1, BackoffTenths |-> 10]
  /\ dAttempt = 1
  /\ dpc = "done"
  /\ delay = 0

DelayFrame == UNCHANGED <<runnerVars, sseVars, daemonVars, nameVars,
                 execVars, cmdVars, fnVars>>

\* A failed attempt that was the last one: the wrapper signals and returns.
DelayLastAttempt ==
  /\ dpc = "failed"
  /\ dAttempt = RetryConfig.MaxAttempts
  /\ dpc' = "done"
  /\ UNCHANGED <<RetryConfig, dAttempt, delay>>
  /\ DelayFrame

\* A failed attempt with attempts left: the delay is computed.
DelayCompute ==
  /\ dpc = "failed"
  /\ dAttempt < RetryConfig.MaxAttempts
  /\ delay' = RetryDelay(RetryConfig, dAttempt)
  /\ dpc' = "sleep"
  /\ UNCHANGED <<RetryConfig, dAttempt>>
  /\ DelayFrame

\* time.Sleep(delay) ends and the next attempt fails as well.
DelaySleep ==
  /\ dpc = "sleep"
  /\ dAttempt' = dAttempt + 1
  /\ dpc' = "failed"
  /\ UNCHANGED <<RetryConfig, delay>>
  /\ DelayFrame

NextDelay == DelayLastAttempt \/ DelayCompute \/ DelaySleep

\* ------------------------------------------------------ the pipeline run
NextRunner ==
  \/ RunClientError
  \/ RunSpawn
  \/ RunWait
  \/ \E j \in Jobs : RetryLoop(j)
  \/ \E j \in Jobs : RetryRecv(j)
  \/ \E j \in Jobs : RetrySend(j)
  \/ \E j \in Jobs : RetrySleep(j)
  \/ \E j \in Jobs : WaitPrev(j)
  \/ \E j \in Jobs : CheckCondition(j)
  \/ \E j \in Jobs : Provision(j)
  \/ \E j \in Jobs : PullImage(j)
  \/ \E j \in Jobs : StartContainer(j)
  \/ \E j \in Jobs : CopyToContainer(j)
  \/ \E j \in Jobs : ContainerStart(j)
  \/ \E j \in Jobs : StageScript(j)
  \/ \E j \in Jobs : ChmodScript(j)
  \/ \E j \in Jobs : commandRunner(j)
  \/ \E j \in Jobs : FailStop(j)
  \/ \E j \in Jobs : FailRemove(j)
  \/ \E j \in Jobs : RemoveScript(j)
  \/ \E j \in Jobs : CopyFromContainer(j)
  \/ \E j \in Jobs : StopContainer(j)
  \/ \E j \in Jobs : RemoveContainer(j)

NextCancel == NextRunner \/ Cancel \/ SignalHandler

\* ------------------------------------------------- SSE event broadcaster
\* A connection is one call of handleSSE with the channel it makes; a client id
\* is the id AddClient gives to that channel. Identifiers made by uuid.New are
\* told apart by what they were made for.
Conns == 1..MaxClients
Broadcasters == 1..MaxBroadcasters

EmptyID == [kind |-> "empty", n |-> 0]
NoEvent == [ID |-> EmptyID, Type |-> "none", Data |-> 0, Timestamp |-> "zero"]

\* The event a caller hands to Broadcast as its n-th event: Type and Data are
\* set, ID and Timestamp are left zero.
EventInputs(n) ==
  {[ID |-> EmptyID, Type |-> "event", Data |-> n, Timestamp |-> "zero"]}

\* Broadcast fills in a zero timestamp and an empty id.
Stamp(e) ==
  [e EXCEPT !.Timestamp = IF @ = "zero" THEN "now" ELSE @,
            !.ID = IF @ = EmptyID THEN [kind |-> "uuid", n |-> e.Data] ELSE @]

welcomeEvent(c) ==
  [ID |-> [kind |-> "welcome", n |-> c], Type |-> "connection", Data |-> c,
   Timestamp |-> "now"]

\* eb.mutex: Broadcast holds the read lock for the whole call; AddClient,
\* RemoveClient and Close hold the write lock for the whole call.
Readers == {b \in Broadcasters : bpc[b] = "loop"}
CanLock == Readers = {}

SSEIdle ==
  /\ ebClients = {}
  /\ ebClosed = FALSE
  /\ sink = [c \in Conns |-> <<>>]
  /\ sinkClosed = [c \in Conns |-> FALSE]
  /\ hpc = [c \in Conns |-> "idle"]
  /\ stream = [c \in Conns |-> <<>>]
  /\ bpc = [b \in Broadcasters |-> "idle"]
  /\ bEvent = [b \in Broadcasters |-> NoEvent]
  /\ bTodo = [b \in Broadcasters |-> {}]
  /\ broadcasts = 0
  /\ removals = [c \in Conns |-> 0]
  /\ dropped = [c \in Conns |-> {}]
  /\ ssePanic = FALSE

SSEFrame == UNCHANGED <<runnerVars, delayVars, daemonVars, nameVars, execVars, cmdVars, fnVars>>

\* Broadcast up to the range loop: read lock, closed check, stamping.
BroadcastEvent(b, e) ==
  /\ bpc[b] = "idle"
  /\ broadcasts < MaxEvents
  /\ broadcasts' = broadcasts + 1
  /\ IF ebClosed
     THEN UNCHANGED <<bpc, bEvent, bTodo>>
     ELSE /\ bpc' = [bpc EXCEPT ![b] = "loop"]
          /\ bEvent' = [bEvent EXCEPT ![b] = Stamp(e)]
          /\ bTodo' = [bTodo EXCEPT ![b] = ebClients]
  /\ UNCHANGED <<ebClients, ebClosed, sink, sinkClosed, hpc, stream, removals,
                 dropped, ssePanic>>
  /\ SSEFrame

\* A caller hands its next event to Broadcast.
BroadcastBegin(b) == \E e \in EventInputs(broadcasts + 1) : BroadcastEvent(b, e)

\* The n-th event that is broadcast, handed in by executor b: its data names
\* the executor (its pipeline) and the position of the event.
ExecutorStride == MaxBroadcasters + 1
ExecutorEvent(b, n) ==
  [ID |-> EmptyID, Type |-> "event", Data |-> n * ExecutorStride + b,
   Timestamp |-> "zero"]
Executor(e) == e.Data % ExecutorStride
Position(e) == e.Data \div ExecutorStride

\* An executor broadcasts its events one after the other: its next call of
\* Broadcast starts when the one before has returned.
ExecutorBroadcast(b) == BroadcastEvent(b, ExecutorEvent(b, broadcasts + 1))

\* Mutant of BroadcastSend: a plain send, which waits for room in the sink.
BroadcastSendBlocking(b, c) ==
  /\ bpc[b] = "loop"
  /\ c \in bTodo[b]
  /\ bTodo' = [bTodo EXCEPT ![b] = @ \ {c}]
  /\ ~sinkClosed[c]
  /\ Len(sink[c]) < SinkCap
  /\ sink' = [sink EXCEPT ![c] = Append(@, bEvent[b])]
  /\ UNCHANGED <<removals, dropped, ssePanic>>
  /\ UNCHANGED <<ebClients, ebClosed, sinkClosed, hpc, stream, bpc, bEvent,
                 broadcasts>>
  /\ SSEFrame

\* Mutant of BroadcastSend: an event that finds the sink full is dropped and
\* no removal of the client is started.
BroadcastSendKeepsClient(b, c) ==
  /\ bpc[b] = "loop"
  /\ c \in bTodo[b]
  /\ bTodo' = [bTodo EXCEPT ![b] = @ \ {c}]
  /\ IF sinkClosed[c]
     THEN /\ ssePanic' = TRUE
          /\ UNCHANGED <<sink, removals, dropped>>
     ELSE IF Len(sink[c]) < SinkCap
     THEN /\ sink' = [sink EXCEPT ![c] = Append(@, bEvent[b])]
          /\ UNCHANGED <<removals, dropped, ssePanic>>
     ELSE /\ dropped' = [dropped EXCEPT ![c] = @ \cup {bEvent[b].Data}]
          /\ UNCHANGED <<sink, removals, ssePanic>>
  /\ UNCHANGED <<ebClients, ebClosed, sinkClosed, hpc, stream, bpc, bEvent,
                 broadcasts>>
  /\ SSEFrame

\* One iteration of the range loop: the non-blocking send to client c, and
\* `go eb.RemoveClient(clientID)` when the sink takes no event.
BroadcastSend(b, c) ==
  /\ bpc[b] = "loop"
  /\ c \in bTodo[b]
  /\ bTodo' = [bTodo EXCEPT ![b] = @ \ {c}]
  /\ IF sinkClosed[c]
     THEN /\ ssePanic' = TRUE
          /\ UNCHANGED <<sink, removals, dropped>>
     ELSE IF Len(sink[c]) < SinkCap
     THEN /\ sink' = [sink EXCEPT ![c] = Append(@, bEvent[b])]
          /\ UNCHANGED <<removals, dropped, ssePanic>>
     ELSE /\ removals' = [removals EXCEPT ![c] = @ + 1]
          /\ dropped' = [dropped EXCEPT ![c] = @ \cup {bEvent[b].Data}]
          /\ UNCHANGED <<sink, ssePanic>>
  /\ UNCHANGED <<ebClients, ebClosed, sinkClosed, hpc, stream, bpc, bEvent,
                 broadcasts>>
  /\ SSEFrame

\* The range loop is over: Broadcast returns and releases the read lock.
BroadcastEnd(b) ==
  /\ bpc[b] = "loop"
  /\ bTodo[b] = {}
  /\ bpc' = [bpc EXCEPT ![b] = "idle"]
  /\ bEvent' = [bEvent EXCEPT ![b] = NoEvent]
  /\ UNCHANGED <<ebClients, ebClosed, sink, sinkClosed, hpc, stream, bTodo,
                 broadcasts, removals, dropped, ssePanic>>
  /\ SSEFrame

\* Mutant of RemoveClient: the channel is closed whether or not the id is in
\* the table.
RemoveClientUnchecked(c) ==
  /\ sinkClosed' = [sinkClosed EXCEPT ![c] = TRUE]
  /\ ssePanic' = (ssePanic \/ sinkClosed[c])
  /\ ebClients' = ebClients \ {c}

\* The body of RemoveClient under the write lock.
RemoveClient(c) ==
  IF c \in ebClients
  THEN /\ sinkClosed' = [sinkClosed EXCEPT ![c] = TRUE]
       /\ ssePanic' = (ssePanic \/ sinkClosed[c])
       /\ ebClients' = ebClients \ {c}
  ELSE UNCHANGED <<sinkClosed, ssePanic, ebClients>>

\* handleSSE up to its loop: make(chan Event, 100) and AddClient.
HandleConnect(c) ==
  /\ hpc[c] = "idle"
  /\ CanLock
  /\ IF ebClosed
     THEN /\ hpc' = [hpc EXCEPT ![c] = "rejected"]
          /\ UNCHANGED <<ebClients, sink>>
     ELSE IF Len(sink[c]) < SinkCap
     THEN /\ ebClients' = ebClients \cup {c}
          /\ sink' = [sink EXCEPT ![c] = Append(@, welcomeEvent(c))]
          /\ hpc' = [hpc EXCEPT ![c] = "listen"]
     ELSE /\ hpc' = [hpc EXCEPT ![c] = "rejected"]
          /\ UNCHANGED <<ebClients, sink>>
  /\ UNCHANGED <<ebClosed, sinkClosed, stream, bpc, bEvent, bTodo, broadcasts,
                 removals, dropped, ssePanic>>
  /\ SSEFrame

\* Mutant of HandleEvent: the handler writes the newest event of its channel.
HandleEventNewestFirst(c) ==
  /\ hpc[c] = "listen"
  /\ Len(sink[c]) > 0
  /\ stream' = [stream EXCEPT ![c] = Append(@, sink[c][Len(sink[c])])]
  /\ sink' = [sink EXCEPT ![c] = SubSeq(@, 1, Len(@) - 1)]
  /\ UNCHANGED <<ebClients, ebClosed, sinkClosed, hpc, bpc, bEvent, bTodo,
                 broadcasts, removals, dropped, ssePanic>>
  /\ SSEFrame

\* The loop of handleSSE receives an event and writes it to the response.
HandleEvent(c) ==
  /\ hpc[c] = "listen"
  /\ Len(sink[c]) > 0
  /\ stream' = [stream EXCEPT ![c] = Append(@, Head(sink[c]))]
  /\ sink' = [sink EXCEPT ![c] = Tail(@)]
  /\ UNCHANGED <<ebClients, ebClosed, sinkClosed, hpc, bpc, bEvent, bTodo,
                 broadcasts, removals, dropped, ssePanic>>
  /\ SSEFrame

\* The loop of handleSSE finds its channel closed and drained, and returns.
HandleClosed(c) ==
  /\ hpc[c] = "listen"
  /\ Len(sink[c]) = 0
  /\ sinkClosed[c]
  /\ hpc' = [hpc EXCEPT ![c] = "cleanup"]
  /\ UNCHANGED <<ebClients, ebClosed, sink, sinkClosed, stream, bpc, bEvent,
                 bTodo, broadcasts, removals, dropped, ssePanic>>
  /\ SSEFrame

\* The request's context is done (the client went away): handleSSE returns.
HandleDisconnect(c) ==
  /\ hpc[c] = "listen"
  /\ hpc' = [hpc EXCEPT ![c] = "cleanup"]
  /\ UNCHANGED <<ebClients, ebClosed, sink, sinkClosed, stream, bpc, bEvent,
                 bTodo, broadcasts, removals, dropped, ssePanic>>
  /\ SSEFrame

\* The deferred s.broadcaster.RemoveClient(clientID) of handleSSE.
HandleCleanup(c) ==
  /\ hpc[c] = "cleanup"
  /\ CanLock
  /\ RemoveClient(c)
  /\ hpc' = [hpc EXCEPT ![c] = "done"]
  /\ UNCHANGED <<ebClosed, sink, stream, bpc, bEvent, bTodo, broadcasts,
                 removals, dropped>>
  /\ SSEFrame

\* Mutant of AsyncRemove: the removal does not wait for the write lock.
AsyncRemoveUnlocked(c) ==
  /\ removals[c] > 0
  /\ RemoveClient(c)
  /\ removals' = [removals EXCEPT ![c] = @ - 1]
  /\ UNCHANGED <<ebClosed, sink, hpc, stream, bpc, bEvent, bTodo, broadcasts,
                 dropped>>
  /\ SSEFrame

\* A goroutine started by Broadcast runs eb.RemoveClient(clientID).
AsyncRemove(c) ==
  /\ removals[c] > 0
  /\ CanLock
  /\ RemoveClient(c)
  /\ removals' = [removals EXCEPT ![c] = @ - 1]
  /\ UNCHANGED <<ebClosed, sink, hpc, stream, bpc, bEvent, bTodo, broadcasts,
                 dropped>>
  /\ SSEFrame

\* Mutant of Close: the table is emptied but the channels are not closed.
CloseDropsOnly ==
  /\ ~ebClosed
  /\ CanLock
  /\ ebClosed' = TRUE
  /\ ebClients' = {}
  /\ UNCHANGED <<sinkClosed, ssePanic>>
  /\ UNCHANGED <<sink, hpc, stream, bpc, bEvent, bTodo, broadcasts, removals,
                 dropped>>
  /\ SSEFrame

\* The body of Close under the write lock: every registered channel is closed
\* and deleted.
CloseTable ==
  /\ ~ebClosed
  /\ CanLock
  /\ ebClosed' = TRUE
  /\ sinkClosed' = [c \in Conns |-> sinkClosed[c] \/ c \in ebClients]
  /\ ssePanic' = (ssePanic \/ \E c \in ebClients : sinkClosed[c])
  /\ ebClients' = {}
  /\ UNCHANGED <<sink, hpc, stream, bpc, bEvent, bTodo, broadcasts, removals,
                 dropped>>

\* EventBroadcaster.Close.
Close == CloseTable /\ SSEFrame

NextSSE ==
  \/ \E b \in Broadcasters : BroadcastBegin(b)
  \/ \E b \in Broadcasters, c \in Conns : BroadcastSend(b, c)
  \/ \E b \in Broadcasters : BroadcastEnd(b)
  \/ \E c \in Conns : HandleConnect(c)
  \/ \E c \in Conns : HandleEvent(c)
  \/ \E c \in Conns : HandleClosed(c)
  \/ \E c \in Conns : HandleDisconnect(c)
  \/ \E c \in Conns : HandleCleanup(c)
  \/ \E c \in Conns : AsyncRemove(c)
  \/ Close

NextOrder ==
  \/ \E b \in Broadcasters : ExecutorBroadcast(b)
  \/ \E b \in Broadcasters, c \in Conns : BroadcastSend(b, c)
  \/ \E b \in Broadcasters : BroadcastEnd(b)
  \/ \E c \in Conns : HandleConnect(c)
  \/ \E c \in Conns : HandleEvent(c)
  \/ \E c \in Conns : HandleClosed(c)
  \/ \E c \in Conns : HandleDisconnect(c)
  \/ \E c \in Conns : HandleCleanup(c)
  \/ \E c \in Conns : AsyncRemove(c)
  \/ Close

\* A started goroutine runs, and a Broadcast in its loop goes on: the sends
\* of the loop never wait, and the write lock is granted once no reader holds
\* the mutex.
FairSSE ==
  /\ \A c \in Conns : WF_vars(AsyncRemove(c))
  /\ \A b \in Broadcasters : WF_vars(BroadcastEnd(b))
  /\ \A b \in Broadcasters : WF_vars(\E c \in Conns : BroadcastSend(b, c))

\* ------------------------------------- the broadcaster used through its API
\* A caller owns a channel, hands it to AddClient, receives from it and calls
\* RemoveClient; Broadcast is called with events that may carry an id and a
\* timestamp of the caller. hpc holds the caller's position: "idle" before
\* AddClient, "listen" with the id AddClient returned, "rejected" after an
\* empty id, "done" after its RemoveClient call.
callerItem ==
  [ID |-> [kind |-> "caller", n |-> 0], Type |-> "caller", Data |-> 0,
   Timestamp |-> "caller"]

\* A channel of the caller that already holds k items of its own.
Fill(k) == [i \in 1..k |-> callerItem]

CallerEvents(n) ==
  [ID : {EmptyID, [kind |-> "caller", n |-> n]}, Type : {"event"}, Data : {n},
   Timestamp : {"zero", "caller"}]

APIInit ==
  /\ ebClients = {}
  /\ ebClosed = FALSE
  /\ sink \in [Conns -> {Fill(k) : k \in 0..SinkCap}]
  /\ sinkClosed = [c \in Conns |-> FALSE]
  /\ hpc = [c \in Conns |-> "idle"]
  /\ stream = [c \in Conns |-> <<>>]
  /\ bpc = [b \in Broadcasters |-> "idle"]
  /\ bEvent = [b \in Broadcasters |-> NoEvent]
  /\ bTodo = [b \in Broadcasters |-> {}]
  /\ broadcasts = 0
  /\ removals = [c \in Conns |-> 0]
  /\ dropped = [c \in Conns |-> {}]
  /\ ssePanic = FALSE

\* Mutant of AddClient: a client whose sink takes no welcome event stays in
\* the table.
AddClientKeepsFull(c) ==
  /\ hpc[c] \in {"idle", "rejected"}
  /\ CanLock
  /\ IF ebClosed
     THEN /\ hpc' = [hpc EXCEPT ![c] = "rejected"]
          /\ UNCHANGED <<ebClients, sink>>
     ELSE IF Len(sink[c]) < SinkCap
     THEN /\ ebClients' = ebClients \cup {c}
          /\ sink' = [sink EXCEPT ![c] = Append(@, welcomeEvent(c))]
          /\ hpc' = [hpc EXCEPT ![c] = "listen"]
     ELSE /\ ebClients' = ebClients \cup {c}
          /\ hpc' = [hpc EXCEPT ![c] = "rejected"]
          /\ UNCHANGED sink
  /\ UNCHANGED <<ebClosed, sinkClosed, stream, bpc, bEvent, bTodo, broadcasts,
                 removals, dropped, ssePanic>>
  /\ SSEFrame

\* EventBroadcaster.AddClient with the caller's channel.
AddClient(c) ==
  /\ hpc[c] \in {"idle", "rejected"}
  /\ CanLock
  /\ IF ebClosed
     THEN /\ hpc' = [hpc EXCEPT ![c] = "rejected"]
          /\ UNCHANGED <<ebClients, sink>>
     ELSE IF Len(sink[c]) < SinkCap
     THEN /\ ebClients' = ebClients \cup {c}
          /\ sink' = [sink EXCEPT ![c] = Append(@, welcomeEvent(c))]
          /\ hpc' = [hpc EXCEPT ![c] = "listen"]
     ELSE /\ ebClients' = ebClients
          /\ hpc' = [hpc EXCEPT ![c] = "rejected"]
          /\ UNCHANGED sink
  /\ UNCHANGED <<ebClosed, sinkClosed, stream, bpc, bEvent, bTodo, broadcasts,
                 removals, dropped, ssePanic>>
  /\ SSEFrame

\* The caller receives one item from its channel.
Receive(c) ==
  /\ Len(sink[c]) > 0
  /\ stream' = [stream EXCEPT ![c] = Append(@, Head(sink[c]))]
  /\ sink' = [sink EXCEPT ![c] = Tail(@)]
  /\ UNCHANGED <<ebClients, ebClosed, sinkClosed, hpc, bpc, bEvent, bTodo,
                 broadcasts, removals, dropped, ssePanic>>
  /\ SSEFrame

\* The caller calls RemoveClient with its id; the id of a caller that never
\* registered is unknown to the broadcaster.
RemoveClientCall(c) ==
  /\ hpc[c] # "done"
  /\ CanLock
  /\ RemoveClient(c)
  /\ hpc' = [hpc EXCEPT ![c] = "done"]
  /\ UNCHANGED <<ebClosed, sink, stream, bpc, bEvent, bTodo, broadcasts,
                 removals, dropped>>
  /\ SSEFrame

\* Broadcast is called with its n-th event.
BroadcastCall(b) ==
  /\ bpc[b] = "idle"
  /\ broadcasts < MaxEvents
  /\ broadcasts' = broadcasts + 1
  /\ \E e \in CallerEvents(broadcasts + 1) :
       bEvent' = [bEvent EXCEPT ![b] = e]
  /\ bpc' = [bpc EXCEPT ![b] = "call"]
  /\ UNCHANGED <<ebClients, ebClosed, sink, sinkClosed, hpc, stream, bTodo,
                 removals, dropped, ssePanic>>
  /\ SSEFrame

\* Mutant of BroadcastStamp: the id and the timestamp are always overwritten.
BroadcastStampAlways(b) ==
  /\ bpc[b] = "call"
  /\ IF ebClosed
     THEN /\ bpc' = [bpc EXCEPT ![b] = "idle"]
          /\ bEvent' = [bEvent EXCEPT ![b] = NoEvent]
          /\ UNCHANGED bTodo
     ELSE /\ bpc' = [bpc EXCEPT ![b] = "loop"]
          /\ bEvent' = [bEvent EXCEPT ![b] =
                          [@ EXCEPT !.ID = [kind |-> "uuid", n |-> bEvent[b].Data],
                                    !.Timestamp = "now"]]
          /\ bTodo' = [bTodo EXCEPT ![b] = ebClients]
  /\ UNCHANGED <<ebClients, ebClosed, sink, sinkClosed, hpc, stream, broadcasts,
                 removals, dropped, ssePanic>>
  /\ SSEFrame

\* Broadcast takes the read lock, returns if the broadcaster is closed, and
\* otherwise stamps the event and starts the range loop.
BroadcastStamp(b) ==
  /\ bpc[b] = "call"
  /\ IF ebClosed
     THEN /\ bpc' = [bpc EXCEPT ![b] = "idle"]
          /\ bEvent' = [bEvent EXCEPT ![b] = NoEvent]
          /\ UNCHANGED bTodo
     ELSE /\ bpc' = [bpc EXCEPT ![b] = "loop"]
          /\ bEvent' = [bEvent EXCEPT ![b] = Stamp(@)]
          /\ bTodo' = [bTodo EXCEPT ![b] = ebClients]
  /\ UNCHANGED <<ebClients, ebClosed, sink, sinkClosed, hpc, stream, broadcasts,
                 removals, dropped, ssePanic>>
  /\ SSEFrame

NextAPI ==
  \/ \E c \in Conns : AddClient(c)
  \/ \E c \in Conns : Receive(c)
  \/ \E c \in Conns : RemoveClientCall(c)
  \/ \E b \in Broadcasters : BroadcastBegin(b)
  \/ \E b \in Broadcasters, c \in Conns : BroadcastSend(b, c)
  \/ \E b \in Broadcasters : BroadcastEnd(b)
  \/ \E c \in Conns : AsyncRemove(c)
  \/ Close

\* Registered callers and calls of Broadcast with events of every shape.
NextStamp ==
  \/ \E c \in Conns : AddClient(c)
  \/ \E c \in Conns : Receive(c)
  \/ \E b \in Broadcasters : BroadcastCall(b)
  \/ \E b \in Broadcasters : BroadcastStamp(b)
  \/ \E b \in Broadcasters, c \in Conns : BroadcastSend(b, c)
  \/ \E b \in Broadcasters : BroadcastEnd(b)
  \/ \E c \in Conns : AsyncRemove(c)
  \/ Close

\* ------------------------------------------------------ the daemon (/trigger)
\* The /trigger requests of one daemon process, and its pipeline executions:
\* execution 0 is the initial run of the pipeline file, execution t is the one
\* started by request t.
Triggers == 1..MaxTriggers
Execs == 0..MaxTriggers
Methods == {"POST", "GET"}
Bodies == {"", "yaml", "unreadable"}
NoRequest == [method |-> "POST", body |-> "", pc |-> "none", status |-> 0]

\* An entry of the daemon's log of calls: a Broadcast call with the type of
\* its event and the request or execution it belongs to, or a shutdown call;
\* open tells whether the broadcaster was still open when the call was made
\* (Broadcast returns without sending once it is closed).
Entry(ev, src) ==
  [ev |-> ev, src |-> src, open |-> dmPc \notin {"closed", "returned"},
   err |-> "nil"]

\* The error of an executor result, as the pipeline_error event carries it.
NotConfigured == "pipeline executor not configured"
ErrorOf(result) ==
  CASE result = "ok" -> "nil"
    [] result = "unconfigured" -> NotConfigured
    [] OTHER -> "pipeline failed"

DaemonIdle ==
  /\ dmPc = "off"
  /\ req = [t \in Triggers |-> NoRequest]
  /\ exec = [e \in Execs |-> "none"]
  /\ dLog = <<>>
  /\ deadline = FALSE
  /\ pipelineExecutor = FALSE

DaemonInit ==
  /\ dmPc = "start"
  /\ req = [t \in Triggers |-> NoRequest]
  /\ exec = [e \in Execs |-> "none"]
  /\ dLog = <<>>
  /\ deadline = FALSE
  /\ pipelineExecutor = TRUE

\* The other subsystems, and the executor callback, which is set before the
\* server starts and never changed.
DaemonFrame ==
  UNCHANGED <<runnerVars, delayVars, sseVars, nameVars, execVars, cmdVars,
              fnVars, pipelineExecutor>>

\* The listener of the HTTP server accepts connections.
Listening == dmPc \in {"started", "serving", "stopping"}

\* The handlers that have not returned yet.
InHandler == {t \in Triggers : req[t].pc \in {"reading", "accepted"}}

\* The /events handlers that have not returned yet.
OpenStreams == {c \in Conns : hpc[c] \in {"listen", "cleanup"}}

\* The executions whose executor callback is running.
Running == {e \in Execs : exec[e] = "running"}

\* ApplyDaemon creates the broadcaster and the server and starts the server's
\* goroutine, the only member of the WaitGroup.
DaemonServe ==
  /\ dmPc = "start"
  /\ dmPc' = "started"
  /\ UNCHANGED <<req, exec, dLog, deadline>>
  /\ DaemonFrame

\* ApplyDaemon broadcasts daemon_start and, when a file was given, starts the
\* goroutine of the initial run.
DaemonStart ==
  /\ dmPc = "started"
  /\ dmPc' = "serving"
  /\ dLog' = Append(dLog, Entry("daemon_start", 0))
  /\ \E file \in BOOLEAN :
       exec' = [exec EXCEPT ![0] = IF file THEN "spawned" ELSE "none"]
  /\ UNCHANGED <<req, deadline>>
  /\ DaemonFrame

\* A request for /trigger arrives and its handler starts.
TriggerArrive(t) ==
  /\ Listening
  /\ req[t].pc = "none"
  /\ \E m \in Methods, b \in Bodies :
       req' = [req EXCEPT ![t] = [method |-> m, body |-> b, pc |-> "reading",
                                  status |-> 0]]
  /\ UNCHANGED <<dmPc, exec, dLog, deadline>>
  /\ DaemonFrame

\* Mutant of TriggerReject: the body is looked at before the method.
TriggerRejectBodyFirst(t) ==
  /\ dmPc # "returned"
  /\ req[t].pc = "reading"
  /\ req[t].method # "POST" \/ req[t].body # "yaml"
  /\ req' = [req EXCEPT ![t].pc = "responded",
                        ![t].status = IF req[t].body # "yaml" THEN 400 ELSE 405]
  /\ UNCHANGED <<dmPc, exec, dLog, deadline>>
  /\ DaemonFrame

\* handleTrigger answers 405 to a method other than POST, and 400 to a body
\* that cannot be read or is empty.
TriggerReject(t) ==
  /\ dmPc # "returned"
  /\ req[t].pc = "reading"
  /\ req[t].method # "POST" \/ req[t].body # "yaml"
  /\ req' = [req EXCEPT ![t].pc = "responded",
                        ![t].status = IF req[t].method # "POST" THEN 405 ELSE 400]
  /\ UNCHANGED <<dmPc, exec, dLog, deadline>>
  /\ DaemonFrame

\* handleTrigger broadcasts pipeline_trigger for a POST with a body.
TriggerAccept(t) ==
  /\ dmPc # "returned"
  /\ req[t].pc = "reading"
  /\ req[t].method = "POST" /\ req[t].body = "yaml"
  /\ req' = [req EXCEPT ![t].pc = "accepted"]
  /\ dLog' = Append(dLog, Entry("pipeline_trigger", t))
  /\ UNCHANGED <<dmPc, exec, deadline>>
  /\ DaemonFrame

\* handleTrigger starts the goroutine of the execution and answers 200.
TriggerSpawn(t) ==
  /\ dmPc # "returned"
  /\ req[t].pc = "accepted"
  /\ req' = [req EXCEPT ![t].pc = "responded", ![t].status = 200]
  /\ exec' = [exec EXCEPT ![t] = "spawned"]
  /\ UNCHANGED <<dmPc, dLog, deadline>>
  /\ DaemonFrame

\* Mutant of ExecStart: a missing executor callback counts as a run that
\* returned nil.
ExecStartNilIsSuccess(e) ==
  /\ dmPc # "returned"
  /\ exec[e] = "spawned"
  /\ exec' = [exec EXCEPT ![e] = IF e # 0 /\ ~pipelineExecutor
                                  THEN "ok" ELSE "running"]
  /\ UNCHANGED <<dmPc, req, dLog, deadline>>
  /\ DaemonFrame

\* The goroutine of an execution calls the executor: Apply for the initial
\* run, executePipelineFromYAML for a trigger, which calls the callback
\* (executeYAMLPipeline) or, when none is set, returns an error at once.
ExecStart(e) ==
  /\ dmPc # "returned"
  /\ exec[e] = "spawned"
  /\ exec' = [exec EXCEPT ![e] = IF e # 0 /\ ~pipelineExecutor
                                  THEN "unconfigured" ELSE "running"]
  /\ UNCHANGED <<dmPc, req, dLog, deadline>>
  /\ DaemonFrame

\* The executor returns nil or an error.
ExecReturn(e) ==
  /\ dmPc # "returned"
  /\ exec[e] = "running"
  /\ \E r \in {"ok", "error"} : exec' = [exec EXCEPT ![e] = r]
  /\ UNCHANGED <<dmPc, req, dLog, deadline>>
  /\ DaemonFrame

\* Mutant of ExecBroadcast: pipeline_complete whatever the executor returned.
ExecBroadcastComplete(e) ==
  /\ dmPc # "returned"
  /\ exec[e] \in {"ok", "error", "unconfigured"}
  /\ dLog' = Append(dLog, Entry("pipeline_complete", e))
  /\ exec' = [exec EXCEPT ![e] = IF exec[e] = "ok" THEN "done_ok" ELSE "done_error"]
  /\ UNCHANGED <<dmPc, req, deadline>>
  /\ DaemonFrame

\* The goroutine broadcasts pipeline_error for an error and pipeline_complete
\* for nil, and ends.
ExecBroadcast(e) ==
  /\ dmPc # "returned"
  /\ exec[e] \in {"ok", "error", "unconfigured"}
  /\ dLog' = Append(dLog, [Entry(IF exec[e] = "ok" THEN "pipeline_complete"
                                                   ELSE "pipeline_error", e)
                             EXCEPT !.err = ErrorOf(exec[e])])
  /\ exec' = [exec EXCEPT ![e] = IF exec[e] = "ok" THEN "done_ok" ELSE "done_error"]
  /\ UNCHANGED <<dmPc, req, deadline>>
  /\ DaemonFrame

\* The signal arrives: ApplyDaemon broadcasts daemon_stop and creates the
\* shutdown context.
DaemonSignal ==
  /\ dmPc = "serving"
  /\ dmPc' = "stopping"
  /\ dLog' = Append(dLog, Entry("daemon_stop", 0))
  /\ UNCHANGED <<req, exec, deadline>>
  /\ DaemonFrame

\* The timeout of the shutdown context passes.
DeadlineExpires ==
  /\ dmPc \in {"stopping", "draining", "stopped", "closed"}
  /\ ~deadline
  /\ deadline' = TRUE
  /\ UNCHANGED <<dmPc, req, exec, dLog>>
  /\ DaemonFrame

\* Server.Stop calls http.Server.Shutdown, which closes the listener (the
\* server's goroutine returns from Start).
ServerShutdown ==
  /\ dmPc = "stopping"
  /\ dmPc' = "draining"
  /\ UNCHANGED <<req, exec, dLog, deadline>>
  /\ DaemonFrame

\* Mutant of ServerStop: Shutdown waits for the handlers whatever the context.
ServerStopWaitsForHandlers ==
  /\ dmPc = "draining"
  /\ InHandler = {} /\ OpenStreams = {}
  /\ dmPc' = "stopped"
  /\ dLog' = Append(dLog, Entry("server_stop", 0))
  /\ UNCHANGED <<req, exec, deadline>>
  /\ DaemonFrame

\* Shutdown returns when the handlers have returned or the context is done.
ServerStop ==
  /\ dmPc = "draining"
  /\ (InHandler = {} /\ OpenStreams = {}) \/ deadline
  /\ dmPc' = "stopped"
  /\ dLog' = Append(dLog, Entry("server_stop", 0))
  /\ UNCHANGED <<req, exec, deadline>>
  /\ DaemonFrame

\* ApplyDaemon closes the broadcaster.
DaemonClose ==
  /\ dmPc = "stopped"
  /\ dmPc' = "closed"
  /\ dLog' = Append(dLog, Entry("broadcaster_close", 0))
  /\ CloseTable
  /\ UNCHANGED <<req, exec, deadline, pipelineExecutor>>
  /\ UNCHANGED <<runnerVars, delayVars, nameVars, execVars, cmdVars, fnVars>>

\* ApplyDaemon waits for the WaitGroup, which holds the server's goroutine
\* only, or for the shutdown context, and returns; the process ends.
DaemonReturn ==
  /\ dmPc = "closed"
  /\ dmPc \in {"draining", "stopped", "closed"} \/ deadline
  /\ dmPc' = "returned"
  /\ dLog' = Append(dLog, Entry("return", 0))
  /\ UNCHANGED <<req, exec, deadline>>
  /\ DaemonFrame

NextDaemon ==
  \/ DaemonServe
  \/ DaemonStart
  \/ \E t \in Triggers : TriggerArrive(t)
  \/ \E t \in Triggers : TriggerReject(t)
  \/ \E t \in Triggers : TriggerAccept(t)
  \/ \E t \in Triggers : TriggerSpawn(t)
  \/ \E e \in Execs : ExecStart(e)
  \/ \E e \in Execs : ExecReturn(e)
  \/ \E e \in Execs : ExecBroadcast(e)
  \/ DaemonSignal
  \/ DeadlineExpires
  \/ ServerShutdown
  \/ ServerStop
  \/ DaemonClose
  \/ DaemonReturn

\* The daemon with subscribers of /events: a connection is accepted while the
\* listener is open, and a handler runs while the process does.
StreamConnect(c) == Listening /\ HandleConnect(c)
StreamEvent(c) == dmPc # "returned" /\ HandleEvent(c)
StreamClosed(c) == dmPc # "returned" /\ HandleClosed(c)
StreamDisconnect(c) == dmPc # "returned" /\ HandleDisconnect(c)
StreamCleanup(c) == dmPc # "returned" /\ HandleCleanup(c)

NextShutdown ==
  \/ DaemonServe
  \/ DaemonStart
  \/ \E c \in Conns : StreamConnect(c)
  \/ \E c \in Conns : StreamEvent(c)
  \/ \E c \in Conns : StreamClosed(c)
  \/ \E c \in Conns : StreamDisconnect(c)
  \/ \E c \in Conns : StreamCleanup(c)
  \/ DaemonSignal
  \/ DeadlineExpires
  \/ ServerShutdown
  \/ ServerStop
  \/ DaemonClose
  \/ DaemonReturn

\* ApplyDaemon goes on once it got the signal, the timer of the shutdown
\* context fires, and a handler that can return does.
FairShutdown ==
  /\ WF_vars(DeadlineExpires)
  /\ WF_vars(ServerShutdown)
  /\ WF_vars(ServerStop)
  /\ WF_vars(DaemonClose)
  /\ WF_vars(DaemonReturn)
  /\ \A c \in Conns : WF_vars(StreamClosed(c))
  /\ \A c \in Conns : WF_vars(StreamCleanup(c))

\* ------------------------------------------------------- container names
JobNames == {"build", "test"}
Digits == <<"0", "1", "2", "3", "4", "5", "6", "7", "8", "9">>

\* strconv.Itoa of a non-negative integer.
RECURSIVE Itoa(_)
Itoa(n) == IF n < 10 THEN Digits[n + 1]
           ELSE Itoa(n \div 10) \o Digits[(n % 10) + 1]

\* The name StartContainer gives the container of a job when the clock reads
\* ms milliseconds.
containerName(jobName, ms) == jobName \o "_" \o Itoa(ms)

NamesIdle ==
  /\ now = 0
  /\ containerNames = <<>>

NamesInit ==
  /\ now \in 0..MaxClock
  /\ containerNames = <<>>

NamesFrame == UNCHANGED <<runnerVars, delayVars, sseVars, daemonVars, execVars, cmdVars, fnVars>>

\* A millisecond passes.
Tick ==
  /\ now < MaxClock
  /\ now' = now + 1
  /\ UNCHANGED containerNames
  /\ NamesFrame

\* StartContainer is called for a job and names its container.
NameContainer(j) ==
  /\ Len(containerNames) < MaxStarts
  /\ containerNames' = Append(containerNames,
                              [job |-> j, name |-> containerName(j, now)])
  /\ UNCHANGED now
  /\ NamesFrame

NextNames ==
  \/ Tick
  \/ \E j \in JobNames : NameContainer(j)

\* --------------------------------------------- validation before execution
\* A key of a job in the YAML: absent, a blank string, a non-blank string.
KeyValues == {"nil", " ", "x"}
YamlJobs == [image : KeyValues, dockerfile : KeyValues]
YamlInputs == UNION {[1..n -> YamlJobs] : n \in 0..MaxYamlJobs}
Executors == 1..MaxTriggers

validateImageOrDockerfile(configMap) ==
  IF configMap.image = "nil" /\ configMap.dockerfile = "nil"
    THEN "either 'image' or 'dockerfile' must be specified"
  ELSE IF configMap.image # "nil" /\ configMap.dockerfile # "nil"
    THEN "cannot specify both 'image' and 'dockerfile' in the same job"
  ELSE IF configMap.image = " " THEN "'image' cannot be empty"
  ELSE IF configMap.dockerfile = " " THEN "'dockerfile' cannot be empty"
  ELSE "nil"

\* ValidatePipeline on the configuration held by the global store.
ValidatePipeline(config) ==
  IF Len(config) = 0 THEN "workflow must be defined and cannot be empty"
  ELSE IF \E i \in DOMAIN config : validateImageOrDockerfile(config[i]) # "nil"
    THEN "validation error in job"
  ELSE "nil"

\* parse on the configuration held by the global store: an absent key gives
\* the empty string.
parse(config) ==
  [i \in DOMAIN config |->
     [Image |-> IF config[i].image = "nil" THEN "" ELSE config[i].image,
      Dockerfile |-> IF config[i].dockerfile = "nil" THEN ""
                     ELSE config[i].dockerfile]]

ExecIdle ==
  /\ viperConfig = <<>>
  /\ xpc = [e \in Executors |-> "idle"]
  /\ xPipeline = [e \in Executors |-> <<>>]
  /\ xYaml = [e \in Executors |-> <<>>]

ExecFrame == UNCHANGED <<runnerVars, delayVars, sseVars, daemonVars, nameVars,
                         cmdVars, fnVars>>

\* An execution reads its YAML into the global configuration store.
ExecuteRead(e) ==
  /\ xpc[e] = "idle"
  /\ \E y \in YamlInputs :
       /\ viperConfig' = y
       /\ xYaml' = [xYaml EXCEPT ![e] = y]
  /\ xpc' = [xpc EXCEPT ![e] = "read"]
  /\ UNCHANGED xPipeline
  /\ ExecFrame

\* It validates the configuration the store holds and returns on an error.
ExecuteValidate(e) ==
  /\ xpc[e] = "read"
  /\ xpc' = [xpc EXCEPT ![e] = IF ValidatePipeline(viperConfig) = "nil"
                                THEN "validated" ELSE "rejected"]
  /\ UNCHANGED <<viperConfig, xPipeline, xYaml>>
  /\ ExecFrame

\* It parses the configuration the store holds.
ExecuteParse(e) ==
  /\ xpc[e] = "validated"
  /\ xPipeline' = [xPipeline EXCEPT ![e] = parse(viperConfig)]
  /\ xpc' = [xpc EXCEPT ![e] = "parsed"]
  /\ UNCHANGED <<viperConfig, xYaml>>
  /\ ExecFrame

\* It runs the parsed pipeline: a container is created, or the run fails
\* before that.
ExecuteRun(e) ==
  /\ xpc[e] = "parsed"
  /\ \E r \in {"created", "failed"} : xpc' = [xpc EXCEPT ![e] = r]
  /\ UNCHANGED <<viperConfig, xPipeline, xYaml>>
  /\ ExecFrame

\* The goroutines handleTrigger starts call the executor without a lock.
NextExecute ==
  \/ \E e \in Executors : ExecuteRead(e)
  \/ \E e \in Executors : ExecuteValidate(e)
  \/ \E e \in Executors : ExecuteParse(e)
  \/ \E e \in Executors : ExecuteRun(e)

\* ------------------------------------------------------ the apply command
CmdFlags == [daemon : BOOLEAN, filepath : {"", "pin.yaml"}]

CmdInit ==
  /\ cmdPc = "start"
  /\ cmdArgs \in CmdFlags
  /\ applyErr = NoErr
  /\ exitCode = -1
  /\ fnIn = <<>>
  /\ fnOut = <<>>

CmdFrame == UNCHANGED <<runnerVars, delayVars, sseVars, daemonVars, nameVars,
                        execVars, fnVars>>

\* The exit code the process gives for the value rootCmd.Execute returned.
ExitCodeOf(err) == IF IsErr(err) THEN 1 ELSE 0

\* PreRunE refuses a missing file path outside daemon mode: Execute returns
\* its error and Run is not called.
CmdPreRunError ==
  /\ cmdPc = "start"
  /\ ~cmdArgs.daemon /\ cmdArgs.filepath = ""
  /\ cmdPc' = "exited"
  /\ exitCode' = ExitCodeOf(Err("required flag \"filepath\" not set", 0, 0))
  /\ UNCHANGED <<cmdArgs, applyErr>>
  /\ CmdFrame

\* Run calls Apply, or ApplyDaemon in daemon mode.
CmdRun ==
  /\ cmdPc = "start"
  /\ cmdArgs.daemon \/ cmdArgs.filepath # ""
  /\ cmdPc' = IF cmdArgs.daemon THEN "daemon" ELSE "apply"
  /\ UNCHANGED <<cmdArgs, applyErr, exitCode>>
  /\ CmdFrame

\* Apply returns the error of checkFileExists, readConfig, ValidatePipeline
\* or parse; the pipeline is not run.
ApplyEarlyError ==
  /\ cmdPc = "apply"
  /\ runPc = "start"
  /\ \E m \in {"file not found", "read config", "validation", "parse"} :
       applyErr' = Err(m, 0, 0)
  /\ cmdPc' = "returned"
  /\ UNCHANGED <<cmdArgs, exitCode>>
  /\ CmdFrame

\* Apply runs the pipeline.
ApplyRun ==
  /\ cmdPc = "apply"
  /\ NextRunner

\* Apply returns what Runner.run returned.
ApplyReturn ==
  /\ cmdPc = "apply"
  /\ runPc = "returned"
  /\ applyErr' = runResult
  /\ cmdPc' = "returned"
  /\ UNCHANGED <<cmdArgs, exitCode>>
  /\ CmdFrame

\* ApplyDaemon returns nil after its shutdown.
ApplyDaemonReturn ==
  /\ cmdPc = "daemon"
  /\ applyErr' = NoErr
  /\ cmdPc' = "returned"
  /\ UNCHANGED <<cmdArgs, exitCode>>
  /\ CmdFrame

\* Run has no result and drops the value Apply returned: Execute returns nil.
CmdExit ==
  /\ cmdPc = "returned"
  /\ cmdPc' = "exited"
  /\ exitCode' = ExitCodeOf(NoErr)
  /\ UNCHANGED <<cmdArgs, applyErr>>
  /\ CmdFrame

NextCmd ==
  \/ CmdPreRunError
  \/ CmdRun
  \/ ApplyEarlyError
  \/ ApplyRun
  \/ ApplyReturn
  \/ ApplyDaemonReturn
  \/ CmdExit

\* ------------------------------------------- the shell packager, called
\* The lines a script can hold: two commands and the empty line.
ScriptLines == {"echo", "make", ""}
ShellInputs ==
  [soloExecution : BOOLEAN,
   scripts : UNION {[1..n -> ScriptLines] : n \in 0..MaxScript}]

FnFrame == UNCHANGED <<runnerVars, delayVars, sseVars, daemonVars, nameVars,
                       execVars, cmdVars>>

\* PrepareShellCommands is called with the mode and the script of a job.
CallPrepareShellCommands ==
  /\ fnOut = <<>>
  /\ fnOut' = <<PrepareShellCommands(fnIn.soloExecution, fnIn.scripts)>>
  /\ UNCHANGED fnIn
  /\ FnFrame

\* ------------------------------------------------ retry configuration
\* A value of the YAML as viper hands it over: absent (nil), an int, a
\* float64 (held in tenths), a string, or for retry itself a map.
Nil == [t |-> "nil", v |-> 0]
IntVal(n) == [t |-> "int", v |-> n]
FloatTenths(n) == [t |-> "float64", v |-> n]
StrVal == [t |-> "string", v |-> 0]

AttemptsValues == {Nil, StrVal, FloatTenths(30)} \cup {IntVal(n) : n \in {0, 1, 10, 11}}
DelayValues == {Nil, StrVal} \cup {IntVal(n) : n \in {-1, 0, 300, 301}}
BackoffValues ==
  {Nil, StrVal, IntVal(2)} \cup {FloatTenths(n) : n \in {0, 1, 100, 101}}
RetryInputs ==
  {[t |-> "nil"], [t |-> "string"]} \cup
  [t : {"map"}, attempts : AttemptsValues, delay : DelayValues,
   backoff : BackoffValues]

\* validateRetryConfig: the error it returns, "nil" for none.
validateRetryConfig(retry) ==
  IF retry.t = "nil" THEN "nil"
  ELSE IF retry.t # "map" THEN "'retry' must be an object"
  ELSE IF retry.attempts.t # "nil" /\ retry.attempts.t # "int"
    THEN "retry.attempts must be an integer"
  ELSE IF retry.attempts.t = "int" /\ retry.attempts.v < 1
    THEN "retry.attempts must be at least 1"
  ELSE IF retry.attempts.t = "int" /\ retry.attempts.v > 10
    THEN "retry.attempts must not exceed 10"
  ELSE IF retry.delay.t # "nil" /\ retry.delay.t # "int"
    THEN "retry.delay must be an integer (seconds)"
  ELSE IF retry.delay.t = "int" /\ retry.delay.v < 0
    THEN "retry.delay must be non-negative"
  ELSE IF retry.delay.t = "int" /\ retry.delay.v > 300
    THEN "retry.delay must not exceed 300 seconds"
  ELSE IF retry.backoff.t # "nil" /\ retry.backoff.t # "float64"
    THEN "retry.backoff must be a number"
  ELSE IF retry.backoff.t = "float64" /\ retry.backoff.v <= 0
    THEN "retry.backoff must be greater than 0"
  ELSE IF retry.backoff.t = "float64" /\ retry.backoff.v > 100
    THEN "retry.backoff must not exceed 10.0"
  ELSE "nil"

\* getRetryConfig: the policy the parser gives the job.
getRetryConfig(retry) ==
  LET defaultConfig == [MaxAttempts |-> 1, DelaySeconds |-> 1, BackoffTenths |-> 10]
  IN IF retry.t # "map" THEN defaultConfig
     ELSE [MaxAttempts |-> IF retry.attempts.t = "int" /\ retry.attempts.v > 0
                           THEN retry.attempts.v ELSE defaultConfig.MaxAttempts,
           DelaySeconds |-> IF retry.delay.t = "int" /\ retry.delay.v >= 0
                            THEN retry.delay.v ELSE defaultConfig.DelaySeconds,
           BackoffTenths |-> IF retry.backoff.t = "float64" /\ retry.backoff.v > 0
                             THEN retry.backoff.v ELSE defaultConfig.BackoffTenths]

\* The retry key of a job is validated and, for the parser, converted.
CallValidateRetryConfig ==
  /\ fnOut = <<>>
  /\ fnOut' = <<[err |-> validateRetryConfig(fnIn), cfg |-> getRetryConfig(fnIn)]>>
  /\ UNCHANGED fnIn
  /\ FnFrame

\* ------------------------------------------- the condition evaluator, called
CondTokens == Operators \cup Variables \cup Quoted \cup {"false"}
EnvValues == {"unset", "", "x", "false", "0"}
Envs == {env \in [Variables -> EnvValues] : env["$B"] \in {"unset", "x"}}
ConditionInputs ==
  [condition : UNION {[1..n -> CondTokens] : n \in 0..MaxTokens}, env : Envs]

\* EvaluateCondition is called with the condition of a job.
CallEvaluateCondition ==
  /\ fnOut = <<>>
  /\ fnOut' = <<EvaluateCondition(fnIn.condition, fnIn.env)>>
  /\ UNCHANGED fnIn
  /\ FnFrame

\* ------------------------------------------- validation of a condition
\* The characters of a token.
CharsOf(token) ==
  CASE token = "$A" -> <<"$", "A">>
    [] token = "==" -> <<"=", "=">>
    [] token = "'x'" -> <<"'", "x", "'">>
    [] token = ";" -> <<";">>
    [] token = "rm" -> <<"r", "m">>
    [] token = " " -> <<" ">>

\* The character class [\w\s\$"'=!&|] of validPattern.
ValidChars ==
  {"A", "x", "r", "m", "_", "0", " ", "$", "\"", "'", "=", "!", "&", "|"}

\* IsValidCondition: the empty condition, or one whose characters all are in
\* the class.
IsValidCondition(condition) ==
  \/ condition = <<>>
  \/ \A i \in DOMAIN condition :
       \A k \in DOMAIN CharsOf(condition[i]) :
         CharsOf(condition[i])[k] \in ValidChars

\* validateCondition: the key may be absent; its value must be a string, and
\* one that is not blank.
validateCondition(condition) ==
  IF condition.kind = "nil" THEN "nil"
  ELSE IF condition.kind # "string" THEN "'condition' must be a string"
  ELSE IF condition.tokens = <<" ">> THEN "'condition' cannot be empty"
  ELSE "nil"

\* The values of the key `condition` of a job: absent, a number, a blank
\* string, and the strings of up to MaxCondLen tokens.
CheckTokens == {"$A", "==", "'x'", ";", "rm"}
CheckInputs ==
  {[kind |-> "nil", tokens |-> <<>>], [kind |-> "int", tokens |-> <<>>],
   [kind |-> "string", tokens |-> <<" ">>]}
  \cup {[kind |-> "string", tokens |-> t] :
          t \in UNION {[1..n -> CheckTokens] : n \in 1..MaxCondLen}}

\* ValidatePipeline reaches validateCondition for the job.
CallValidateCondition ==
  /\ fnOut = <<>>
  /\ fnOut' = <<validateCondition(fnIn)>>
  /\ UNCHANGED fnIn
  /\ FnFrame

\* After a validation without error the job is parsed and jobRunner evaluates
\* its condition, unless it is the empty string, to run or to skip the job.
CallCheckCondition ==
  /\ fnOut = <<"nil">>
  /\ fnOut' = Append(fnOut,
                     IF fnIn.tokens = <<>> THEN "run"
                     ELSE IF EvaluateCondition(fnIn.tokens, NoEnv)
                          THEN "evaluated: run" ELSE "evaluated: skip")
  /\ UNCHANGED fnIn
  /\ FnFrame

NextCheck == CallValidateCondition \/ CallCheckCondition

\* ------------------------------------------------ idle command and functions
CmdIdle ==
  /\ cmdPc = "off"
  /\ cmdArgs = [daemon |-> FALSE, filepath |-> ""]
  /\ applyErr = NoErr
  /\ exitCode = -1

ToolsIdle ==
  /\ CmdIdle
  /\ fnIn = <<>>
  /\ fnOut = <<>>

\* Every subsystem but the function under examination is idle.
FnIdle ==
  /\ InitState(<<DefaultJob>>)
  /\ DelayIdle
  /\ SSEIdle
  /\ DaemonIdle
  /\ NamesIdle
  /\ ExecIdle
  /\ CmdIdle

\* ------------------------------------------------------- specifications
\* Pipelines of up to MaxJobs jobs.
Init ==
  /\ ToolsIdle
  /\ ExecIdle
  /\ NamesIdle
  /\ \E w \in UNION {[1..n -> PipelineJobs] : n \in 1..MaxJobs} : InitState(w)
  /\ DelayIdle
  /\ SSEIdle
  /\ DaemonIdle
Next == NextRunner
Spec == Init /\ [][Next]_vars

\* One job, with every combination of its fields.
InitJob ==
  /\ ToolsIdle
  /\ ExecIdle
  /\ NamesIdle
  /\ \E c \in SingleJobs : InitState(<<c>>)
  /\ DelayIdle
  /\ SSEIdle
  /\ DaemonIdle
SpecJob == InitJob /\ [][NextRunner]_vars

\* One job, and the process is interrupted while the pipeline runs.
SpecCancel == InitJob /\ [][NextCancel]_vars

\* The back-off of one job whose attempts all fail, for every retry policy.
InitDelay ==
  /\ ToolsIdle
  /\ ExecIdle
  /\ NamesIdle
  /\ InitState(<<DefaultJob>>)
  /\ DelayInit
  /\ SSEIdle
  /\ DaemonIdle
SpecDelay == InitDelay /\ [][NextDelay]_vars

\* The broadcaster with its connections and the callers of Broadcast.
InitSSE ==
  /\ ToolsIdle
  /\ ExecIdle
  /\ NamesIdle
  /\ InitState(<<DefaultJob>>)
  /\ DelayIdle
  /\ SSEIdle
  /\ DaemonIdle
SpecSSE == InitSSE /\ [][NextSSE]_vars /\ FairSSE

\* The broadcaster with its connections and executors that broadcast their
\* events one after the other.
SpecOrder == InitSSE /\ [][NextOrder]_vars

\* The broadcaster called through its API with channels of the callers.
InitAPI ==
  /\ ToolsIdle
  /\ ExecIdle
  /\ NamesIdle
  /\ InitState(<<DefaultJob>>)
  /\ DelayIdle
  /\ APIInit
  /\ DaemonIdle
SpecAPI == InitAPI /\ [][NextAPI]_vars

\* The broadcaster with empty channels and events with and without an id and
\* a timestamp of the caller.
InitStamp ==
  /\ ToolsIdle
  /\ ExecIdle
  /\ NamesIdle
  /\ InitState(<<DefaultJob>>)
  /\ DelayIdle
  /\ SSEIdle
  /\ DaemonIdle
SpecStamp == InitStamp /\ [][NextStamp]_vars

\* The server with its /trigger endpoint run by a host that may not have called
\* SetPipelineExecutor.
InitServer ==
  /\ ToolsIdle
  /\ ExecIdle
  /\ NamesIdle
  /\ InitState(<<DefaultJob>>)
  /\ DelayIdle
  /\ SSEIdle
  /\ dmPc = "start"
  /\ req = [t \in Triggers |-> NoRequest]
  /\ exec = [e \in Execs |-> "none"]
  /\ dLog = <<>>
  /\ deadline = FALSE
  /\ pipelineExecutor \in BOOLEAN
SpecServer == InitServer /\ [][NextDaemon]_vars

\* The daemon with its /trigger requests, its executions and its shutdown.
InitDaemon ==
  /\ ToolsIdle
  /\ ExecIdle
  /\ NamesIdle
  /\ InitState(<<DefaultJob>>)
  /\ DelayIdle
  /\ SSEIdle
  /\ DaemonInit
SpecDaemon == InitDaemon /\ [][NextDaemon]_vars

\* The daemon with subscribers of /events and its shutdown.
SpecShutdown == InitDaemon /\ [][NextShutdown]_vars /\ FairShutdown

\* StartContainer called for jobs while the clock advances.
InitNames ==
  /\ ToolsIdle
  /\ InitState(<<DefaultJob>>)
  /\ DelayIdle
  /\ SSEIdle
  /\ DaemonIdle
  /\ ExecIdle
  /\ NamesInit
SpecNames == InitNames /\ [][NextNames]_vars

\* The executor called by the goroutines of several triggers.
InitExecute ==
  /\ ToolsIdle
  /\ InitState(<<DefaultJob>>)
  /\ DelayIdle
  /\ SSEIdle
  /\ DaemonIdle
  /\ NamesIdle
  /\ ExecIdle
SpecExecute == InitExecute /\ [][NextExecute]_vars

\* The apply command around one run of a one-job pipeline.
InitCmd ==
  /\ \E c \in SingleJobs : InitState(<<c>>)
  /\ DelayIdle
  /\ SSEIdle
  /\ DaemonIdle
  /\ NamesIdle
  /\ ExecIdle
  /\ CmdInit
SpecCmd == InitCmd /\ [][NextCmd]_vars

\* PrepareShellCommands on every script of up to MaxScript lines.
InitShell ==
  /\ FnIdle
  /\ fnIn \in ShellInputs
  /\ fnOut = <<>>
SpecShell == InitShell /\ [][CallPrepareShellCommands]_vars

\* validateRetryConfig and getRetryConfig on retry values of every shape.
InitRetry ==
  /\ FnIdle
  /\ fnIn \in RetryInputs
  /\ fnOut = <<>>
SpecRetry == InitRetry /\ [][CallValidateRetryConfig]_vars

\* EvaluateCondition on every condition of up to MaxTokens tokens.
InitCondition ==
  /\ FnIdle
  /\ fnIn \in ConditionInputs
  /\ fnOut = <<>>
SpecCondition == InitCondition /\ [][CallEvaluateCondition]_vars

\* validateCondition and the evaluation that follows it, on condition values
\* of every shape.
InitCheck ==
  /\ FnIdle
  /\ fnIn \in CheckInputs
  /\ fnOut = <<>>
SpecCheck == InitCheck /\ [][NextCheck]_vars

\* ================================================================ claims
Spawned == runPc # "start" /\ \A j \in Jobs : wpc[j] # "idle"

\* The attempt of job j is past the predecessor gate.
Proceeded(j) ==
  apc[j] \in {"cond", "provision", "pull", "create", "copyin", "start", "stage",
              "chmod", "run", "failstop", "failremove", "rmscript", "copyout",
              "stop", "remove"}

BothParallel(a) == workflow[a].IsParallel /\ workflow[a - 1].IsParallel

\* C1 (as stated): whenever Runner.run has returned, the last job of the
\* workflow has signaled its terminal outcome exactly once and the value run
\* returns is that outcome. Refuted by the return after a failed client creation.
C1_Original ==
  runPc = "returned" => sends[Last] = 1 /\ runResult = outcome[Last]

\* C1 (amended): when the runtime client was created and the jobs were started,
\* Runner.run returns only after the last job has signaled its terminal outcome,
\* returns exactly that outcome, and an error it returns is the last job's own;
\* otherwise run returns the client error and no job has started.
C1_RunReturnsLastOutcome ==
  /\ runPc = "returned" /\ Spawned =>
       /\ sends[Last] = 1
       /\ runResult = outcome[Last]
       /\ IsErr(runResult) => runResult.job = Last
  /\ runPc = "returned" /\ ~Spawned =>
       /\ IsErr(runResult)
       /\ \A j \in Jobs : sends[j] = 0 /\ apc[j] = "none"
  /\ runPc = "wait" /\ CanRecv(ErrorChannel[Last]) => ENABLED RunWait

\* C1 witness: run has returned ok although an earlier job has failed.
C1_Witness ==
  /\ runPc = "returned" /\ Spawned /\ Last > 1
  /\ ~IsErr(runResult)
  /\ \E j \in Jobs : j < Last /\ sends[j] = 1 /\ IsErr(outcome[j])

\* C2: a gated job that has read a failure from its predecessor's channel
\* has created no container, run no script, and its attempt and the job end
\* with a nil outcome.
C2_SkipOnFailedPredecessor ==
  \A j \in Jobs :
    IsErr(prevErr[j]) =>
      /\ createCalls[j] = 0
      /\ scriptInspects[j] = 0
      /\ apc[j] = "returned"
      /\ wpc[j] \in {"recv", "send", "done"}
      /\ wpc[j] # "recv" => ~IsErr(lastError[j])
      /\ sends[j] = 1 => ~IsErr(outcome[j])

\* C2 witness: a job has seen its predecessor fail and has signaled its outcome.
C2_Witness == \E j \in Jobs : IsErr(prevErr[j]) /\ sends[j] = 1

\* C3 (as stated): a job at position a > 1 that is not one of two adjacent
\* parallel jobs does not proceed before the job at a-1 has signaled.
C3_Original ==
  \A a \in Jobs :
    a > 1 /\ ~BothParallel(a) /\ Proceeded(a) => sends[a - 1] >= 1

\* C3 (amended): a job at position a > 1 proceeds without waiting for the job
\* at a-1 iff it is parallel itself: a parallel job is never blocked at the
\* predecessor gate, and a non-parallel job does not proceed before the job at
\* a-1 has signaled its terminal outcome.
C3_GatesIffNotParallel ==
  \A a \in Jobs :
    a > 1 =>
      /\ workflow[a].IsParallel /\ apc[a] = "waitprev" => ENABLED WaitPrev(a)
      /\ ~workflow[a].IsParallel /\ Proceeded(a) => sends[a - 1] >= 1
      /\ ~workflow[a].IsParallel /\ apc[a] = "waitprev" /\ sends[a - 1] = 0 =>
           ~ENABLED WaitPrev(a)

\* C3 witness: a parallel job that follows a non-parallel job has created its
\* container before that job signaled, and a non-parallel job that follows a
\* parallel job is creating its container after that job signaled.
C3_Witness ==
  /\ Len(workflow) = 3
  /\ ~workflow[1].IsParallel /\ workflow[2].IsParallel /\ ~workflow[3].IsParallel
  /\ createCalls[2] > 0 /\ sends[1] = 0
  /\ apc[3] = "create" /\ sends[2] = 1

\* C4: no job's completion channel ever receives a second value, and when the
\* started pipeline can take no further step every job has signaled its outcome.
C4_ExactlyOneOutcome ==
  /\ \A j \in Jobs : sends[j] <= 1
  /\ Spawned /\ ~ENABLED Next => \A j \in Jobs : sends[j] = 1

\* The condition gate of job j evaluates to false.
CondFalse(j) ==
  workflow[j].Condition # "" /\
        ~EvaluateCondition(Tokens(workflow[j].Condition), NoEnv)

\* C8: a job whose condition evaluates to false has no image provisioned and
\* no container created, its outcome is nil, and a pipeline whose last job is
\* such a job returns nil.
C8_ConditionSkip ==
  /\ \A j \in Jobs :
       CondFalse(j) =>
         /\ provisionCalls[j] = 0
         /\ createCalls[j] = 0
         /\ apc[j] \in {"none", "waitprev", "cond", "returned"}
         /\ sends[j] = 1 => ~IsErr(outcome[j])
  /\ runPc = "returned" /\ Spawned /\ CondFalse(Last) => ~IsErr(runResult)

\* C8 witness: the pipeline has returned ok and its last job was skipped by
\* its condition after the condition was evaluated.
C8_Witness ==
  /\ runPc = "returned" /\ Spawned /\ CondFalse(Last)
  /\ ~IsErr(prevErr[Last]) /\ attempt[Last] = 1 /\ sends[Last] = 1
  /\ ~IsErr(runResult)

\* C5: a job's wrapper stops at the first attempt that returns nil and signals
\* nil; it starts another attempt only after a failed attempt with attempts
\* left; a failure it signals is the error of attempt number maxAttempts. A
\* job with attempts = 3 and one wrapped script whose first attempt ends with a
\* non-zero script exit and whose second attempt succeeds ends ok after exactly
\* two exec inspections of the script.
C5_RetryOutcome ==
  \A j \in Jobs :
    /\ wpc[j] \in {"send", "done"} =>
         /\ apc[j] = "returned"
         /\ IsErr(lastError[j]) =>
              /\ attempt[j] = workflow[j].MaxAttempts
              /\ lastError[j].attempt = workflow[j].MaxAttempts
    /\ wpc[j] = "sleep" =>
         IsErr(lastError[j]) /\ attempt[j] < workflow[j].MaxAttempts
    /\ wpc[j] = "loop" /\ attempt[j] > 1 =>
         IsErr(lastError[j]) /\ lastError[j].attempt = attempt[j] - 1
    /\ sends[j] = 1 => outcome[j] = lastError[j] /\ wpc[j] = "done"
    /\ ( /\ workflow[j].MaxAttempts = 3 /\ Len(Cmds(j)) = 1
         /\ wpc[j] = "done" /\ attempt[j] = 2 /\ scriptFails[j] = 1
         /\ ~IsErr(outcome[j]) )
       => scriptInspects[j] = 2

\* C5 witness: the job with attempts = 3 has ended ok in its second attempt
\* after the script of the first attempt exited non-zero.
C5_Witness ==
  \E j \in Jobs :
    /\ workflow[j].MaxAttempts = 3 /\ Len(Cmds(j)) = 1
    /\ wpc[j] = "done" /\ attempt[j] = 2 /\ scriptFails[j] = 1
    /\ sends[j] = 1 /\ ~IsErr(outcome[j]) /\ scriptInspects[j] = 2

\* C6: a job that has signaled its outcome after every one of its maxAttempts
\* attempts ended with a non-zero script exit has signaled a failure and has
\* invoked the container create step exactly maxAttempts times.
C6_CreatePerAttempt ==
  \A j \in Jobs :
    sends[j] = 1 /\ scriptFails[j] = workflow[j].MaxAttempts =>
      /\ IsErr(outcome[j])
      /\ createCalls[j] = workflow[j].MaxAttempts

\* C6 witness: a job with three attempts has failed at its script three times
\* and has signaled its failure.
C6_Witness ==
  \E j \in Jobs :
    /\ workflow[j].MaxAttempts = 3 /\ scriptFails[j] = 3
    /\ sends[j] = 1 /\ IsErr(outcome[j]) /\ createCalls[j] = 3

\* C9: once the signal handler has run, remove(force=true) has been invoked
\* for every container that a job created and that was not removed.
C9_ForceRemoveOnCancel ==
  handlerDone => \A c \in containers : c \in forceRemoved

\* C7: the wait after failed attempt k is DelaySeconds * BackoffMultiplier^(k-1)
\* seconds exactly, also when that product is not a whole number of seconds,
\* and it is at least DelaySeconds when the multiplier is at least 1.
C7_DelayIsExactProduct ==
  dpc = "sleep" =>
    /\ delay * Pow(10, dAttempt - 1) =
         RetryConfig.DelaySeconds * Pow(RetryConfig.BackoffTenths, dAttempt - 1)
    /\ RetryConfig.BackoffTenths >= 10 => delay >= RetryConfig.DelaySeconds

\* A Broadcast in its loop can take the step for each client left to visit.
C10_NonBlocking ==
  \A b \in Broadcasters : \A c \in bTodo[b] : ENABLED BroadcastSend(b, c)

\* The step of a Broadcast for a client puts the event in a sink with room and
\* starts the removal of a client whose sink is full; the loop starts with the
\* registered clients and ends when none is left to visit.
C10_DeliversToRoom ==
  \A b \in Broadcasters :
    /\ \A c \in Conns :
         c \in bTodo[b] /\ c \notin bTodo'[b] =>
           IF Len(sink[c]) < SinkCap
           THEN sink'[c] = Append(sink[c], bEvent[b]) /\ removals'[c] = removals[c]
           ELSE sink'[c] = sink[c] /\ removals'[c] = removals[c] + 1
    /\ bpc[b] = "loop" /\ bpc'[b] = "idle" => bTodo[b] = {}
    /\ bpc[b] = "idle" /\ bpc'[b] = "loop" => bTodo'[b] = ebClients

\* C10: a Broadcast in its loop can always take its next step, whatever the
\* fill of the sinks; the step for a client whose sink has room puts the event
\* in that sink and the step for a full sink starts that client's removal; the
\* loop ends only after every client registered at its start had its step; and
\* a client whose removal was started is eventually out of the table with its
\* sink closed.
C10_BroadcastSkipsFullSink ==
  /\ []C10_NonBlocking
  /\ [][C10_DeliversToRoom]_vars
  /\ \A c \in Conns : removals[c] > 0 ~> (c \notin ebClients /\ sinkClosed[c])

\* C10 witness: a client that missed an event because its sink was full is out
\* of the table with its sink closed, and another client, registered with it
\* during that broadcast, has received that event.
C10_Witness ==
  \E c \in Conns, d \in Conns, n \in 1..MaxEvents :
    /\ c # d
    /\ n \in dropped[c] /\ c \notin ebClients /\ sinkClosed[c]
    /\ removals[c] = 0
    /\ \E i \in 1..Len(sink[d]) : sink[d][i].Data = n

\* An item of sink or stream that the broadcaster has put there.
FromBroadcaster(e) == e.Type # "caller"

\* What caller c has got from the broadcaster so far, oldest first.
Got(c) == SelectSeq(stream[c] \o sink[c], FromBroadcaster)

\* A step is the return of AddClient to caller c.
AddClientReturns(c) ==
  hpc[c] \in {"idle", "rejected"} /\ hpc'[c] \in {"listen", "rejected"}
  /\ hpc'[c] # hpc[c]

\* AddClient registers c and puts the connection event with c's id in its sink
\* when the broadcaster is open and the sink has room, and otherwise returns
\* the empty id with table, sinks and their open state unchanged.
C11_AddClientStep ==
  \A c \in Conns :
    AddClientReturns(c) =>
      IF ~ebClosed /\ Len(sink[c]) < SinkCap
      THEN /\ hpc'[c] = "listen"
           /\ ebClients' = ebClients \cup {c} /\ c \notin ebClients
           /\ sink'[c] = Append(sink[c], welcomeEvent(c))
           /\ welcomeEvent(c).Type = "connection" /\ welcomeEvent(c).Data = c
      ELSE /\ hpc'[c] = "rejected"
           /\ Cardinality(ebClients') = Cardinality(ebClients)
           /\ ebClients' = ebClients
           /\ sink' = sink /\ sinkClosed' = sinkClosed /\ ~sinkClosed'[c]

\* The first thing a caller gets from the broadcaster is the connection event
\* with its own id, and a caller that is not registered has got nothing.
C11_WelcomeFirst ==
  \A c \in Conns :
    /\ Got(c) # <<>> => Got(c)[1] = welcomeEvent(c)
    /\ hpc[c] \in {"idle", "rejected"} => Got(c) = <<>> /\ c \notin ebClients

\* C11: AddClient on an open broadcaster registers the sink and delivers the
\* connection event carrying the returned id as the first event the sink gets
\* from the broadcaster; when the sink has no room or the broadcaster is
\* closed it returns the empty id, the subscriber count is unchanged and the
\* sink stays open.
C11_AddClient == []C11_WelcomeFirst /\ [][C11_AddClientStep]_vars

\* C11 witness: on an open broadcaster one caller was rejected with its full
\* sink left open, and another has received its connection event first and a
\* broadcast event after it.
C11_Witness ==
  \E c \in Conns, d \in Conns :
    /\ ~ebClosed /\ hpc[c] = "rejected" /\ ~sinkClosed[c]
    /\ Len(sink[c]) = SinkCap /\ c \notin ebClients
    /\ hpc[d] = "listen" /\ Len(Got(d)) >= 2 /\ Got(d)[1] = welcomeEvent(d)

\* Once the broadcaster is closed the table is empty, every caller that ever
\* got something from the broadcaster has its sink closed, no Broadcast is in
\* its loop and nothing has panicked.
C12_ClosedState ==
  /\ ebClosed =>
       /\ Cardinality(ebClients) = 0
       /\ \A c \in Conns : Got(c) # <<>> \/ hpc[c] = "listen" => sinkClosed[c]
       /\ \A b \in Broadcasters : bpc[b] = "idle" /\ bTodo[b] = {}
  /\ ~ssePanic

\* The step that closes the broadcaster closes every registered sink, and no
\* step of a closed broadcaster, a call of Broadcast included, adds to a sink
\* or drops an event.
C12_ClosedSteps ==
  /\ ~ebClosed /\ ebClosed' => \A c \in ebClients : sinkClosed'[c]
  /\ ebClosed =>
       /\ ebClosed'
       /\ \A c \in Conns :
            /\ sink'[c] = sink[c] \/ (sink[c] # <<>> /\ sink'[c] = Tail(sink[c]))
            /\ dropped'[c] = dropped[c]
            /\ removals'[c] <= removals[c]

\* C12: after Close every sink that was registered is closed, the subscriber
\* count is 0, and a later Broadcast delivers nothing and does not panic.
C12_Close == []C12_ClosedState /\ [][C12_ClosedSteps]_vars

\* C12 witness: every caller was registered and got its connection event, the
\* broadcaster was closed with their sinks, and all the calls of Broadcast have
\* been made without anything delivered or dropped.
C12_Witness ==
  /\ ebClosed /\ broadcasts = MaxEvents /\ ebClients = {}
  /\ \A c \in Conns :
       /\ hpc[c] = "listen" /\ sinkClosed[c]
       /\ Got(c) = <<welcomeEvent(c)>> /\ dropped[c] = {}

\* A step is a run of RemoveClient with the id of c: the call of the caller,
\* or a goroutine started by Broadcast.
RemoveClientRuns(c) ==
  \/ hpc[c] # "done" /\ hpc'[c] = "done"
  \/ removals'[c] < removals[c]

\* RemoveClient with a registered id closes that sink, once, and takes the id
\* out of the table; with any other id it changes neither table nor sinks.
C13_RemoveClientStep ==
  \A c \in Conns :
    RemoveClientRuns(c) =>
      /\ IF c \in ebClients
         THEN /\ ~sinkClosed[c] /\ sinkClosed'[c]
              /\ ebClients' = ebClients \ {c}
              /\ Cardinality(ebClients') = Cardinality(ebClients) - 1
         ELSE /\ ebClients' = ebClients
              /\ sinkClosed'[c] = sinkClosed[c]
      /\ \A d \in Conns \ {c} : sinkClosed'[d] = sinkClosed[d]
      /\ ~ssePanic'

\* C13: RemoveClient(id) closes the sink and removes it from the table when id
\* is registered, the subscriber count going down by one, and is a no-op, with
\* no second close and the count unchanged, when id is unknown or was removed.
C13_RemoveClient == [][C13_RemoveClientStep]_vars

\* C13 witness: on an open broadcaster, a registered client was removed and
\* RemoveClient has run for it a second time, and RemoveClient has run for a
\* caller that never registered, whose sink is still open.
C13_Witness ==
  \E c \in Conns, d \in Conns :
    /\ ~ebClosed /\ ~ssePanic
    /\ hpc[c] = "done" /\ dropped[c] # {} /\ removals[c] = 0
    /\ sinkClosed[c] /\ c \notin ebClients
    /\ hpc[d] = "done" /\ Got(d) = <<>> /\ ~sinkClosed[d]

\* The ids of the events that are in a sink, were received, or are being sent.
IdsInUse ==
  UNION {{(stream[c] \o sink[c])[i].ID : i \in 1..Len(stream[c] \o sink[c])} :
           c \in Conns}
  \cup {bEvent[b].ID : b \in {x \in Broadcasters : bpc[x] = "loop"}}

\* Broadcast on an open broadcaster goes on to its loop over the registered
\* clients with the caller's event, in which an empty id is replaced by an id
\* no other event has and a zero timestamp by the current time, and nothing
\* else is changed.
C14_StampStep ==
  \A b \in Broadcasters :
    /\ bpc[b] = "call" /\ bpc'[b] # "call" /\ ~ebClosed =>
         /\ bpc'[b] = "loop" /\ bTodo'[b] = ebClients
         /\ bEvent'[b].Type = bEvent[b].Type /\ bEvent'[b].Data = bEvent[b].Data
         /\ IF bEvent[b].ID = EmptyID
            THEN bEvent'[b].ID # EmptyID /\ bEvent'[b].ID \notin IdsInUse
            ELSE bEvent'[b].ID = bEvent[b].ID
         /\ IF bEvent[b].Timestamp = "zero"
            THEN bEvent'[b].Timestamp = "now"
            ELSE bEvent'[b].Timestamp = bEvent[b].Timestamp
    /\ bpc[b] = "loop" => bEvent'[b] = bEvent[b] \/ bpc'[b] = "idle"

\* The loop visits every client that was registered at its start, and puts the
\* stamped event in the sink of each one that has room.
C14_DeliverStep ==
  \A b \in Broadcasters :
    /\ \A c \in Conns :
         c \in bTodo[b] /\ c \notin bTodo'[b] /\ Len(sink[c]) < SinkCap =>
           sink'[c] = Append(sink[c], bEvent[b])
    /\ bpc[b] = "loop" /\ bpc'[b] = "idle" => bTodo[b] = {}

\* C14: Broadcast on an open broadcaster delivers the event to every
\* registered subscriber whose sink has room, after giving it a fresh unique
\* id when its id is empty and the current time when its timestamp is zero; an
\* id or a timestamp of the caller is kept.
C14_Broadcast == [][C14_StampStep /\ C14_DeliverStep]_vars

\* C14 witness: one subscriber has received an event that kept the caller's id
\* and timestamp, and an event that got a generated id and the current time.
C14_Witness ==
  \E c \in Conns :
    \E i \in 1..Len(Got(c)), j \in 1..Len(Got(c)) :
      /\ Got(c)[i].Type = "event" /\ Got(c)[j].Type = "event"
      /\ Got(c)[i].ID.kind = "caller" /\ Got(c)[i].Timestamp = "caller"
      /\ Got(c)[j].ID.kind = "uuid" /\ Got(c)[j].Timestamp = "now"

\* The positions in the daemon's log of the Broadcast calls with an event of
\* one of the types evs for request or execution src.
Calls(evs, src) == {i \in DOMAIN dLog : dLog[i].ev \in evs /\ dLog[i].src = src}
Completions == {"pipeline_complete", "pipeline_error"}

\* C15: at most one pipeline execution, the initial file run or a triggered
\* run, is in progress at any time in one daemon process.
C15_SingleFlight == Cardinality(Running) <= 1

\* C16 as stated: every accepted trigger has broadcast pipeline_trigger before
\* its execution starts, and an execution whose goroutine has ended has
\* broadcast exactly one completion event, of the type of its result, after
\* its pipeline_trigger; broadcast meaning that the event went out.
C16_Original ==
  \A t \in Triggers :
    /\ exec[t] # "none" =>
         \E i \in Calls({"pipeline_trigger"}, t) : dLog[i].open
    /\ exec[t] \in {"done_ok", "done_error"} =>
         Cardinality({i \in Calls(Completions, t) : dLog[i].open}) = 1

\* C16: every accepted trigger calls Broadcast with pipeline_trigger exactly
\* once before its execution starts; after the executor has returned its
\* goroutine calls Broadcast exactly once, with pipeline_complete for nil and
\* pipeline_error for an error, later than the pipeline_trigger call; the
\* calls made before the daemon closes the broadcaster are the ones that go
\* out, a call made after it has no effect.
C16_TriggerEvents ==
  /\ \A t \in Triggers :
       /\ Cardinality(Calls({"pipeline_trigger"}, t)) =
            IF req[t].pc = "accepted" \/ exec[t] # "none" THEN 1 ELSE 0
       /\ Cardinality(Calls({"pipeline_complete"}, t)) =
            IF exec[t] = "done_ok" THEN 1 ELSE 0
       /\ Cardinality(Calls({"pipeline_error"}, t)) =
            IF exec[t] = "done_error" THEN 1 ELSE 0
       /\ \A i \in Calls(Completions, t) :
            \E j \in Calls({"pipeline_trigger"}, t) : j < i
  /\ \A i \in DOMAIN dLog :
       dLog[i].open <=> ~\E j \in 1..(i - 1) : dLog[j].ev = "broadcaster_close"

\* Two triggers have run to the end, one with each result, and one of the
\* completion events went out while the other was called after the close.
C16_Witness ==
  /\ exec[1] = "done_ok"
  /\ exec[2] = "done_error"
  /\ \E i \in Calls(Completions, 1) : dLog[i].open
  /\ \E i \in Calls(Completions, 2) : ~dLog[i].open

At(ev) == IF Calls({ev}, 0) = {} THEN 0 ELSE CHOOSE i \in Calls({ev}, 0) : TRUE

\* C18: when ApplyDaemon returns it has broadcast daemon_stop, then shut the
\* server down, then closed the broadcaster, and then waited for the pipeline
\* runs in progress up to the deadline.
C18_ShutdownOrder ==
  dmPc = "returned" =>
    /\ 0 < At("daemon_stop")
    /\ At("daemon_stop") < At("server_stop")
    /\ At("server_stop") < At("broadcaster_close")
    /\ At("broadcaster_close") < At("return")
    /\ Running = {} \/ deadline

\* C19: any two StartContainer invocations for the same job name produce
\* distinct container names, also when they fall in the same millisecond.
C19_DistinctNames ==
  \A i, k \in DOMAIN containerNames :
    i < k /\ containerNames[i].job = containerNames[k].job =>
      containerNames[i].name # containerNames[k].name

\* A parsed job that does not set exactly one of image and dockerfile.
Unset(job) == (job.Image = "") = (job.Dockerfile = "")

\* C20: no container is created for a pipeline that contains a job which does
\* not set exactly one of image and dockerfile.
C20_NoContainerForInvalid ==
  \A e \in Executors :
    xpc[e] = "created" => \A i \in DOMAIN xPipeline[e] : ~Unset(xPipeline[e][i])

\* C21: the apply command exits with code 0 when the pipeline succeeds and
\* with a non-zero code whenever Apply or ApplyDaemon returned an error.
C21_ExitCode ==
  cmdPc = "exited" =>
    /\ IsErr(applyErr) => exitCode # 0
    /\ runPc = "returned" /\ ~IsErr(runResult) => exitCode = 0

\* C22: PrepareShellCommands returns nothing for an empty script whatever the
\* mode; for a script L it returns, in solo mode, one wrapper per line, the
\* prefix followed by exactly that line, and otherwise one wrapper, the
\* prefix followed by every line of L in order, each ended by a newline.
C22_PrepareShellCommands ==
  fnOut # <<>> =>
    LET L == fnIn.scripts
        out == fnOut[1]
        P == Len(ScriptPrefix)
    IN /\ L = <<>> => out = <<>>
       /\ L # <<>> /\ fnIn.soloExecution =>
            /\ Len(out) = Len(L)
            /\ \A i \in 1..Len(L) : out[i] = ScriptPrefix \o <<L[i]>>
       /\ L # <<>> /\ ~fnIn.soloExecution =>
            /\ Len(out) = 1
            /\ Len(out[1]) = P + 2 * Len(L)
            /\ SubSeq(out[1], 1, P) = ScriptPrefix
            /\ \A i \in 1..Len(L) :
                 out[1][P + 2 * i - 1] = L[i] /\ out[1][P + 2 * i] = "\n"

\* A script of several lines has been packed into one wrapper.
C22_Witness ==
  /\ fnOut # <<>>
  /\ ~fnIn.soloExecution
  /\ Len(fnIn.scripts) >= 2
  /\ Len(fnOut[1]) = 1

\* A field is absent or a number of the wanted kind within its bounds
\* (a float64 is held in tenths).
InBounds(x, kinds, lo, hi) ==
  x.t = "nil" \/
  (x.t \in kinds /\ LET n == IF x.t = "float64" THEN x.v ELSE 10 * x.v
                    IN lo <= n /\ n <= hi)

\* C23: validateRetryConfig accepts a job if and only if retry is absent or is
\* an object whose present fields are in bounds, attempts an integer in
\* [1,10], delay an integer in [0,300], backoff a number in (0,10]; every
\* accepted job runs at most 10 attempts.
C23_RetryBounds ==
  fnOut # <<>> =>
    /\ fnOut[1].err = "nil" <=>
         \/ fnIn.t = "nil"
         \/ /\ fnIn.t = "map"
            /\ InBounds(fnIn.attempts, {"int"}, 10, 100)
            /\ InBounds(fnIn.delay, {"int"}, 0, 3000)
            /\ InBounds(fnIn.backoff, {"int", "float64"}, 1, 100)
    /\ fnOut[1].err = "nil" => fnOut[1].cfg.MaxAttempts <= 10

\* What an operand stands for: the value of its variable (empty when it is
\* not set), the text between its quotes, or itself.
Resolved(tok, env) ==
  IF tok \in Variables THEN (IF env[tok] = "unset" THEN "" ELSE env[tok])
  ELSE IF tok \in Quoted THEN "x"
  ELSE tok

\* A part is a standalone variable or a comparison of two operands.
Simple(part) ==
  \/ Len(part) = 1 /\ part[1] \in Variables
  \/ /\ Len(part) = 3
     /\ part[2] \in {"==", "!="}
     /\ part[1] \notin Operators /\ part[3] \notin Operators

PartTrue(part, env) ==
  IF Len(part) = 1
  THEN Resolved(part[1], env) \notin {"", "false", "0"}
  ELSE (Resolved(part[1], env) = Resolved(part[3], env)) <=> (part[2] = "==")

\* C24: the empty condition is true; a condition with && is true iff each of
\* its &&-separated parts is true; otherwise a condition with || is true iff
\* one of its ||-separated parts is true; a part is a comparison of its two
\* resolved operands or a standalone variable, true iff its value is not
\* empty, "false" or "0"; a variable that is not set resolves to "".
C24_EvaluateCondition ==
  fnOut # <<>> =>
    LET c == fnIn.condition
        env == fnIn.env
        r == fnOut[1]
        and == Split(c, "&&")
        or == Split(c, "||")
    IN /\ c = <<>> => r
       /\ Contains(c, "&&") =>
            /\ (\A i \in DOMAIN and : Simple(and[i])) =>
                 (r <=> \A i \in DOMAIN and : PartTrue(and[i], env))
            /\ (\E i \in DOMAIN and : Simple(and[i]) /\ ~PartTrue(and[i], env))
                 => ~r
       /\ ~Contains(c, "&&") /\ Contains(c, "||") =>
            /\ (\A i \in DOMAIN or : Simple(or[i])) =>
                 (r <=> \E i \in DOMAIN or : PartTrue(or[i], env))
            /\ (\E i \in DOMAIN or : Simple(or[i]) /\ PartTrue(or[i], env)) => r
       /\ ~Contains(c, "&&") /\ ~Contains(c, "||") /\ Simple(c) =>
            (r <=> PartTrue(c, env))

\* A conjunction of a comparison and a variable has been found true.
C24_Witness ==
  /\ fnOut = <<TRUE>>
  /\ fnIn.condition = <<"$A", "==", "'x'", "&&", "$B">>

\* C25: after a failed attempt with attempts remaining the job starts a new
\* attempt that reaches provisioning and container creation, also when the
\* job is gated on a predecessor whose outcome the first attempt has read:
\* the gate of a retry attempt is never shut for good, that is, the
\* predecessor's outcome is still to come or waits in its channel.
C25_RetryPassesGate ==
  \A j \in Jobs :
    attempt[j] > 1 /\ apc[j] = "waitprev" /\ Gated(j) =>
      CanRecv(ErrorChannel[Previous(j)]) \/ wpc[Previous(j)] # "done"

\* Job a is not parallel and follows a parallel job, the last of its group.
AfterGroup(a) == a > 1 /\ ~workflow[a].IsParallel /\ workflow[a - 1].IsParallel

\* C26: a non-parallel job right after a group of parallel jobs waits for the
\* outcome of the last member of the group and for nothing else, whatever the
\* earlier members are doing; a parallel job that follows a parallel job is
\* never held at its gate.
C26_GroupGate ==
  \A a \in Jobs :
    /\ AfterGroup(a) =>
         /\ Proceeded(a) => sends[a - 1] >= 1
         /\ apc[a] = "waitprev" =>
              (ENABLED WaitPrev(a) <=> CanRecv(ErrorChannel[a - 1]))
    /\ a > 1 /\ BothParallel(a) =>
         /\ Previous(a) = 0
         /\ apc[a] = "waitprev" => ENABLED WaitPrev(a)

\* Two parallel jobs are followed by a non-parallel job, which has created its
\* container while the first member of the group still runs in its own.
C26_Witness ==
  /\ Len(workflow) = 3
  /\ BothParallel(2) /\ AfterGroup(3)
  /\ <<3, 1>> \in containers /\ apc[3] \in {"stage", "chmod", "run"}
  /\ <<1, 1>> \in containers /\ sends[1] = 0
  /\ sends[2] = 1

\* A wrapped script of the current attempt of job j has exited non-zero.
ScriptFailed(j) == scriptFails[j] = attempt[j]

\* The error the current attempt of job j has returned.
AttemptError(j) ==
  IF attemptChannel[j] # <<>> THEN Head(attemptChannel[j]) ELSE lastError[j]

\* C27 as stated: an attempt in which a wrapped script exited non-zero ends
\* with its container removed and with the error "command execution failed".
C27_Original ==
  \A j \in Jobs :
    ScriptFailed(j) /\ apc[j] = "returned" =>
      /\ <<j, attempt[j]>> \notin containers
      /\ AttemptError(j).msg = "command execution failed"

\* C27: after a non-zero exit the executor kills the container and only stops
\* and removes it: no later wrapped script and no copy-out is executed; when
\* stop and remove succeed the container is gone and the attempt fails with
\* "command execution failed", and when stop or remove fails the attempt
\* fails with that call's error and the container is left behind.
C27_ScriptFailure ==
  \A j \in Jobs :
    ScriptFailed(j) =>
      /\ apc[j] \in {"failstop", "failremove", "returned"}
      /\ scriptInspects[j] <= cmdIdx[j] + 1 + (attempt[j] - 1) * Len(Cmds(j))
      /\ apc[j] = "returned" =>
           /\ IsErr(AttemptError(j))
           /\ AttemptError(j).msg \in {"command execution failed", AdapterError}
           /\ AttemptError(j).msg = "command execution failed"
                <=> <<j, attempt[j]>> \notin containers

\* The first of two wrapped scripts exited non-zero: the container is removed,
\* the second script was not run and the attempt failed with the error.
C27_Witness ==
  \E j \in Jobs :
    /\ Len(Cmds(j)) = 2 /\ cmdIdx[j] = 0 /\ attempt[j] = 1
    /\ ScriptFailed(j) /\ apc[j] = "returned"
    /\ scriptInspects[j] = 1
    /\ <<j, 1>> \notin containers
    /\ AttemptError(j).msg = "command execution failed"

\* The positions of an attempt at which a runtime step is due.
RuntimeSteps ==
  {"provision", "pull", "create", "copyin", "start", "stage", "chmod", "run",
   "rmscript", "copyout", "stop", "remove"}

\* The positions that follow the step due at apc[j] when it succeeds.
NextStep(j) ==
  CASE apc[j] = "provision" ->
         IF workflow[j].Dockerfile # "" THEN {"create"} ELSE {"pull", "create"}
    [] apc[j] = "pull" -> {"create"}
    [] apc[j] = "create" -> {"copyin"}
    [] apc[j] = "copyin" -> {"start"}
    [] apc[j] = "start" -> {IF Len(Cmds(j)) > 0 THEN "stage" ELSE "copyout"}
    [] apc[j] = "stage" -> {"chmod"}
    [] apc[j] = "chmod" -> {"run"}
    [] apc[j] = "run" -> {"rmscript"}
    [] apc[j] = "rmscript" ->
         {IF cmdIdx[j] + 1 < Len(Cmds(j)) THEN "stage" ELSE "copyout"}
    [] apc[j] = "copyout" -> {"stop"}
    [] apc[j] = "stop" -> {"remove"}
    [] apc[j] = "remove" -> {"returned"}
    [] OTHER -> {}

\* The attempt of job j sends nil on its channel in this step.
SignalsSuccess(j) ==
  /\ Len(attemptChannel'[j]) = Len(attemptChannel[j]) + 1
  /\ ~IsErr(attemptChannel'[j][Len(attemptChannel'[j])])

\* The step due at apc[j] is taken and does not end the attempt in an error.
StepSucceeds(j) ==
  /\ apc[j] \in RuntimeSteps
  /\ apc'[j] # apc[j]
  /\ apc'[j] # "failstop"
  /\ apc'[j] = "returned" => SignalsSuccess(j)

\* C28: the runtime steps of an attempt follow each other in the order
\* provision, pull only after a check that found the image absent, create,
\* copy-in (a call only if copyFiles), start, one stage/chmod/run/remove-script
\* cycle per wrapped script in script order, copy-out (a call only if
\* artifactPath is set), stop, remove; and an attempt that has begun its
\* runtime steps sends nil only in the step in which remove returned without
\* error, after every script has been cycled.
C28_StepOrder ==
  [][\A j \in Jobs :
       /\ StepSucceeds(j) => apc'[j] \in NextStep(j)
       /\ apc[j] = "provision" /\ apc'[j] = "pull" =>
            provisionCalls'[j] = provisionCalls[j] + 1
       /\ apc[j] = "copyin" /\ ~workflow[j].CopyFiles => apc'[j] \in {"copyin", "start"}
       /\ apc[j] = "copyout" /\ workflow[j].ArtifactPath = "" =>
            apc'[j] \in {"copyout", "stop"}
       /\ apc[j] = "rmscript" /\ StepSucceeds(j) => cmdIdx'[j] = cmdIdx[j] + 1
       /\ apc[j] = "run" /\ StepSucceeds(j) =>
            scriptInspects'[j] = scriptInspects[j] + 1
       /\ apc[j] \in RuntimeSteps /\ SignalsSuccess(j) =>
            /\ apc[j] = "remove"
            /\ cmdIdx[j] = Len(Cmds(j))
            /\ <<j, attContainer[j]>> \in containers
            /\ <<j, attContainer[j]>> \notin containers'
     ]_vars

\* A first attempt with copy-in, two wrapped scripts and copy-out has signalled
\* success: both scripts were run and inspected and the container is removed.
C28_Witness ==
  \E j \in Jobs :
    /\ workflow[j].CopyFiles /\ workflow[j].ArtifactPath # ""
    /\ Len(Cmds(j)) = 2 /\ cmdIdx[j] = 2 /\ scriptInspects[j] = 2
    /\ attempt[j] = 1 /\ apc[j] = "returned"
    /\ attemptChannel[j] = <<NoErr>>
    /\ createCalls[j] = 1 /\ provisionCalls[j] = 1
    /\ <<j, 1>> \notin containers

\* The containers of job j that were created and are not yet removed.
ActiveContainers(j) == {c \in containers : c[1] = j}

\* C29: at every moment a job has at most one container that was created and
\* is not yet removed, across its attempts and on every failure path.
C29_OneActiveContainer ==
  \A j \in Jobs : Cardinality(ActiveContainers(j)) <= 1

IsExecutorEvent(e) == e.Type = "event"

\* The events of executors that connection c has written and received, in the
\* order it has written and received them.
Received(c) == SelectSeq(stream[c] \o sink[c], IsExecutorEvent)

\* C30: a subscriber to which no event was dropped has written and received
\* the events of each executor in the order the executor broadcast them,
\* whatever other executors broadcast and whatever other subscribers do.
C30_OrderPerExecutor ==
  \A c \in Conns :
    dropped[c] = {} =>
      \A i, k \in DOMAIN Received(c) :
        i < k /\ Executor(Received(c)[i]) = Executor(Received(c)[k]) =>
          Position(Received(c)[i]) < Position(Received(c)[k])

\* A subscriber without a drop has written the first and the third event, both
\* of one executor, with the second event, of the other executor, between
\* them, while the other subscriber registered and was removed.
C30_Witness ==
  \E c, d \in Conns :
    /\ c # d /\ dropped[c] = {} /\ hpc[d] = "done"
    /\ Len(stream[c]) = 4
    /\ Position(stream[c][2]) = 1 /\ Position(stream[c][3]) = 2
    /\ Position(stream[c][4]) = 3
    /\ Executor(stream[c][2]) = Executor(stream[c][4])
    /\ Executor(stream[c][3]) # Executor(stream[c][2])

StreamIsClosed(c) == hpc[c] \notin {"listen", "cleanup"} \/ dmPc = "returned"

C33_InvalidRejected ==
  fnIn.kind = "string" /\ ~IsValidCondition(fnIn.tokens) =>
    /\ Len(fnOut) >= 1 => fnOut[1] # "nil"
    /\ Len(fnOut) < 2

\* C34: under every interleaving of Broadcast, AddClient, the removals that
\* Broadcast starts, the handlers' deferred removals and Close, no channel is
\* closed twice and none is sent on after its close, and every sink in the
\* subscriber table is open.
C34_SinksOpen ==
  /\ ~ssePanic
  /\ \A c \in ebClients : ~sinkClosed[c]

\* The sink of a subscriber was closed once although a removal started by
\* Broadcast, the deferred removal of its handler and Close all have run.
C34_Witness ==
  \E c \in Conns :
    /\ dropped[c] # {} /\ removals[c] = 0
    /\ hpc[c] = "done" /\ sinkClosed[c]
    /\ ebClosed /\ ~ssePanic

\* A workflow of three non-parallel jobs whose first job has failed.
FirstOfThreeFailed ==
  /\ Len(workflow) = 3
  /\ \A j \in Jobs : ~workflow[j].IsParallel
  /\ sends[1] = 1 /\ IsErr(outcome[1])

\* C35: when the first of three non-parallel jobs fails, the second creates
\* no container and signals nil, the third is not skipped for it (it reads nil
\* at the gate as soon as the second has signaled, and goes on to its
\* condition and its container), and run returns the third job's outcome.
C35_SkipDoesNotPropagate ==
  FirstOfThreeFailed =>
    /\ createCalls[2] = 0
    /\ sends[2] = 1 => ~IsErr(outcome[2])
    /\ ~IsErr(prevErr[3])
    /\ apc[3] = "waitprev" /\ attempt[3] = 1 /\ CanRecv(ErrorChannel[2]) =>
         ENABLED WaitPrev(3)
    /\ createCalls[3] > 0 => sends[2] = 1 /\ IsErr(prevErr[2])
    /\ runPc = "returned" => sends[3] = 1 /\ runResult = outcome[3]

\* The first job failed, the second was skipped, the third ran its container
\* to the end, and run has returned the third job's nil outcome.
C35_Witness ==
  /\ FirstOfThreeFailed
  /\ IsErr(prevErr[2]) /\ createCalls[2] = 0 /\ sends[2] = 1
  /\ createCalls[3] = 1 /\ scriptInspects[3] = 1 /\ containers = {}
  /\ runPc = "returned" /\ runResult = outcome[3] /\ ~IsErr(runResult)

\* C36: when Runner.run returns after it has started the jobs, every job has
\* signaled its terminal outcome and no attempt is still at work on a
\* container.
C36_AllDoneAtReturn ==
  runPc = "returned" /\ Spawned =>
    \A j \in Jobs : sends[j] = 1 /\ ~Proceeded(j)

\* The positions of an attempt that has not sent its outcome yet.
BeforeSend == {"waitprev", "cond", "failstop", "failremove"} \cup RuntimeSteps

\* C37: a job's channel and an attempt's channel never hold more than one
\* value, a job sends at most once, and a send never waits: the wrapper
\* finds the job's channel empty when it sends, and an attempt that has not
\* sent yet finds its own channel empty, whoever reads the channels.
C37_SendsNeverBlock ==
  \A j \in Jobs :
    /\ Len(ErrorChannel[j]) <= 1 /\ Len(attemptChannel[j]) <= 1
    /\ sends[j] <= 1
    /\ wpc[j] = "send" => ErrorChannel[j] = <<>> /\ ENABLED RetrySend(j)
    /\ apc[j] \in BeforeSend /\ wpc[j] = "recv" => attemptChannel[j] = <<>>
    /\ apc[j] = "remove" => ENABLED RemoveContainer(j)
    /\ apc[j] = "cond" => ENABLED CheckCondition(j)

\* The first job has sent its outcome and ended, and the value stays in its
\* channel: the job after it is parallel and run has returned.
C37_Witness ==
  /\ Len(workflow) = 2 /\ workflow[2].IsParallel
  /\ wpc[1] = "done" /\ sends[1] = 1 /\ Len(ErrorChannel[1]) = 1
  /\ runPc = "returned"

\* C38 as stated: once an event was dropped for a subscriber, no event is
\* delivered to it any more.
C38_Original ==
  [][\A c \in Conns :
       dropped[c] # {} => Len(sink'[c]) <= Len(sink[c])]_vars

\* C38: an event that was dropped for a subscriber is never delivered to it,
\* no event is delivered twice, and the drop starts the removal of the
\* subscriber: a removal is pending or the subscriber is out of the table.
\* Until the removal runs, later events are still delivered.
C38_NoReplay ==
  \A c \in Conns :
    /\ \A i \in DOMAIN Received(c) : Received(c)[i].Data \notin dropped[c]
    /\ \A i, k \in DOMAIN Received(c) :
         i # k => Received(c)[i].Data # Received(c)[k].Data
    /\ dropped[c] # {} => removals[c] > 0 \/ c \notin ebClients

\* The second event was dropped for a subscriber whose removal has not run
\* yet; its handler has made room since, and a Broadcast of the third event
\* is about to send to it.
C38_Witness ==
  \E c \in Conns, b \in Broadcasters :
    /\ dropped[c] = {2} /\ removals[c] > 0 /\ c \in ebClients
    /\ bpc[b] = "loop" /\ c \in bTodo[b] /\ bEvent[b].Data = 3
    /\ Len(sink[c]) < SinkCap /\ ~sinkClosed[c]

\* C39: an execution validates and parses the YAML document it was called
\* with: the pipeline it has parsed, and runs, is the one of its own document.
C39_OwnDocument ==
  \A e \in Executors :
    xpc[e] \in {"parsed", "created", "failed"} =>
      /\ xPipeline[e] = parse(xYaml[e])
      /\ ValidatePipeline(xYaml[e]) = "nil"

====
